---------------------------- MODULE Spec2Model ----------------------------
(***************************************************************************)
(* A model of the orchestration pipeline of teslamint/ai-orchestration:    *)
(*   - the acceptance loop of OrchestrationContext (orchestration_context) *)
(*   - CommandExecutor.run and execute_run_command (orchestrator_cli)      *)
(*   - stage 4 (run_claude_executor) and the review/fix loop of main       *)
(* Optional values (None or a value) are sequences of length 0 or 1.       *)
(* Confidence scores and thresholds are in hundredths (0.8 is 80).         *)
(***************************************************************************)
EXTENDS Integers, Sequences, FiniteSets, TLC

VARIABLES
    \* --- OrchestrationContext: the acceptance loop
    ralph_wiggum_feedback,    \* Optional[RalphWiggumFeedback]
    ralph_wiggum_threshold,   \* hundredths
    review_attempt,
    max_attempts,
    review_notes,
    iteration_history,
    file_snapshots,
    previous_outputs,
    lastop,                   \* the method of the context called last
    ret,                      \* what that call returned
    \* --- OrchestratorConfig and the globals of orchestrator_cli
    auto_run,
    DEBUG,
    skip_review,
    max_fix_iterations,
    auto_fix,
    auto_select,
    \* --- CommandExecutor (config.command_executor)
    auto_approve,
    retries,
    execution_counter,        \* _execution_counter
    log_directory,            \* command_id -> the summary written to its file
    \* --- CommandExecutor.run: locals of the call in progress
    attempt,
    logs,
    attempts_data,
    final_status,
    final_exit_code,          \* Optional[int]
    final_output,
    confirmed,                \* typer.confirm: "unasked", "granted", "denied"
    log_writes,               \* calls of _write_execution_log made by this call
    run_ret,                  \* Optional: the tuple run returned
    \* --- main and the OrchestrationContext of the run
    pc,
    implementation_plan,
    task_idx,                 \* position of `for task in implementation_plan`
    execution_logs,
    generated_diffs,          \* file path -> diff
    files,                    \* the workspace: file path -> content
    exception,                \* the exception that ended main, if any
    brainstorming_ideas,      \* stage 1: None until the brainstormer answered
    refined_brainstorming,    \* stage 2: Optional[str]
    selected_approach,        \* Optional[str]
    approach_prompts,         \* the prompts the selection of the approach made
    \* --- run_claude_executor: locals of the call in progress
    existing_code,
    exec_attempt,
    agent_calls,              \* agent invocations made by this call
    code_content,             \* Optional: the content extracted by the last
                              \* attempt of the call in progress
    exec_effects,             \* what this call has written and appended
    \* --- main, stages 5 and 6: the review/fix loop
    fix_iteration,
    fix_iteration_count,      \* context.fix_iteration_count
    code_review_result,       \* Optional[CodeReviewResult]
    review_output,            \* what the reviewer's last output parsed as
    choice,                   \* Optional: the last answer to the fix prompt
    items_to_fix,
    dispatched,               \* findings passed to run_claude_fixer, in order
    review_calls,             \* calls of run_codex_code_review made so far
    sorted_items,
    fix_idx,                  \* position of `for review_item in sorted_items`
    fix_attempt,
    fix_execution_logs,
    \* --- the helper functions of the two modules, called on their own
    input,                    \* the arguments of the call
    output                    \* Optional: what the call returned

ctxState == <<ralph_wiggum_feedback, ralph_wiggum_threshold, review_attempt,
              max_attempts, review_notes, iteration_history, file_snapshots,
              previous_outputs>>
ctxVars == <<ralph_wiggum_feedback, ralph_wiggum_threshold, review_attempt,
             max_attempts, review_notes, iteration_history, file_snapshots,
             previous_outputs, lastop, ret>>

cfgVars == <<auto_run, DEBUG, skip_review, max_fix_iterations, auto_fix,
             auto_select>>
executorVars == <<auto_approve, retries, execution_counter, log_directory>>
runVars == <<attempt, logs, attempts_data, final_status, final_exit_code,
             final_output, confirmed, log_writes, run_ret>>
mainVars == <<pc, implementation_plan, task_idx, execution_logs,
              generated_diffs, files, exception>>
execVars == <<existing_code, exec_attempt, agent_calls, code_content,
             exec_effects>>
loopVars == <<fix_iteration, fix_iteration_count, code_review_result,
              review_output, choice, items_to_fix, dispatched,
              review_calls, sorted_items, fix_idx, fix_attempt,
              fix_execution_logs>>
ideaVars == <<brainstorming_ideas, refined_brainstorming, selected_approach,
              approach_prompts>>
fnVars == <<input, output>>
cmdVars == <<executorVars, runVars>>
pipeVars == <<fnVars, ideaVars, cfgVars, cmdVars, mainVars, execVars,
             loopVars>>

vars == <<ctxVars, pipeVars>>

(***************************************************************************)
(* Bounds of the model.                                                    *)
(***************************************************************************)
MaxMaxAttempts == 3
MaxHist == 2
MaxList == 1
MaxRetries == 1
MaxCalls == 2
MaxPlan == 2
MaxFixIterations == 2
MaxItems == 3
MaxEntries == 2
MaxText == 7
MaxOutput == 5
MaxContent == 3
MaxRaw == 3
MaxStderrLines == 6

None == <<>>
Some(x) == <<x>>

(***************************************************************************)
(* orchestration_context.py                                                *)
(***************************************************************************)
ReviewDecision == {"accepted", "rejected", "needs_revision", "pending"}

\* confidence_score: float, ge=0.0, le=1.0
Scores == {0, 50, 80, 95, 100}
Thresholds == {0, 50, 80, 100}

RalphWiggumFeedback == [decision : ReviewDecision, confidence_score : Scores]

\* The feedback objects the acceptance loop is driven with: accepted by its
\* decision, accepted by its score alone, and not accepted (at threshold 0.8).
LoopFeedback ==
    { [decision |-> "accepted", confidence_score |-> 50],
      [decision |-> "rejected", confidence_score |-> 95],
      [decision |-> "needs_revision", confidence_score |-> 50] }

DefaultThreshold == 80
DefaultMaxAttempts == 3

increment_attempt_ret == ~(review_attempt >= max_attempts)

increment_attempt_val_unguarded == review_attempt + 1

\* IterationMetadata.increment_attempt, the new value of review_attempt
increment_attempt_val ==
    IF review_attempt >= max_attempts THEN review_attempt
    ELSE review_attempt + 1

add_history_entry(entry) == Append(iteration_history, entry)

is_ralph_wiggum_accepted_and(fb, threshold) ==
    IF fb = None THEN FALSE
    ELSE LET feedback == fb[1]
             is_accepted == feedback.decision = "accepted"
         IN  is_accepted /\ feedback.confidence_score >= threshold

is_ralph_wiggum_accepted(fb, threshold) ==
    IF fb = None THEN FALSE
    ELSE LET feedback == fb[1]
             is_accepted == feedback.decision = "accepted"
         IN  is_accepted \/ feedback.confidence_score >= threshold

can_ralph_wiggum_retry_inclusive == review_attempt <= max_attempts

\* lines 281-286
can_ralph_wiggum_retry == review_attempt < max_attempts

\* dict entries of iteration_history
feedback_submitted(fb) ==
    [action |-> "feedback_submitted", decision |-> fb.decision,
     attempt |-> review_attempt]
CustomEntry == [action |-> "custom", decision |-> "", attempt |-> 0]

CtxDefaults ==
    /\ ralph_wiggum_feedback = None
    /\ ralph_wiggum_threshold = DefaultThreshold
    /\ review_attempt = 1
    /\ max_attempts = DefaultMaxAttempts
    /\ review_notes = <<>>
    /\ iteration_history = <<>>
    /\ file_snapshots = <<>>
    /\ previous_outputs = <<>>
    /\ lastop = "init"
    /\ ret = "None"

BoolStr(b) == IF b THEN "True" ELSE "False"

submit_ralph_wiggum_feedback_overwrites(feedback) ==
    /\ Len(iteration_history) < MaxHist
    /\ ralph_wiggum_feedback' = Some(feedback)
    /\ iteration_history' = <<feedback_submitted(feedback)>>
    /\ lastop' = "submit_ralph_wiggum_feedback"
    /\ UNCHANGED pipeVars
    /\ ret' = "None"
    /\ UNCHANGED <<ralph_wiggum_threshold, review_attempt, max_attempts,
                   review_notes, file_snapshots, previous_outputs>>

\* lines 256-267
submit_ralph_wiggum_feedback(feedback) ==
    /\ Len(iteration_history) < MaxHist
    /\ ralph_wiggum_feedback' = Some(feedback)
    /\ iteration_history' = add_history_entry(feedback_submitted(feedback))
    /\ lastop' = "submit_ralph_wiggum_feedback"
    /\ UNCHANGED pipeVars
    /\ ret' = "None"
    /\ UNCHANGED <<ralph_wiggum_threshold, review_attempt, max_attempts,
                   review_notes, file_snapshots, previous_outputs>>

SubmitFeedback == \E fb \in LoopFeedback : submit_ralph_wiggum_feedback(fb)

IsAccepted ==
    /\ lastop' = "is_ralph_wiggum_accepted"
    /\ UNCHANGED pipeVars
    /\ ret' = BoolStr(is_ralph_wiggum_accepted(ralph_wiggum_feedback,
                                               ralph_wiggum_threshold))
    /\ UNCHANGED ctxState

prepare_ralph_wiggum_retry_clears_history ==
    /\ lastop' = "prepare_ralph_wiggum_retry"
    /\ UNCHANGED pipeVars
    /\ IF ~can_ralph_wiggum_retry
       THEN /\ ret' = "False"
            /\ UNCHANGED ctxState
       ELSE /\ review_attempt' = increment_attempt_val
            /\ ralph_wiggum_feedback' = None
            /\ iteration_history' = <<>>
            /\ ret' = "True"
            /\ UNCHANGED <<ralph_wiggum_threshold, max_attempts, review_notes,
                           file_snapshots, previous_outputs>>

prepare_ralph_wiggum_retry_at_max ==
    /\ lastop' = "prepare_ralph_wiggum_retry"
    /\ UNCHANGED pipeVars
    /\ IF review_attempt > max_attempts
       THEN /\ ret' = "False"
            /\ UNCHANGED ctxState
       ELSE /\ review_attempt' = increment_attempt_val
            /\ ralph_wiggum_feedback' = None
            /\ ret' = "True"
            /\ UNCHANGED <<ralph_wiggum_threshold, max_attempts, review_notes,
                           iteration_history, file_snapshots, previous_outputs>>

prepare_ralph_wiggum_retry ==
    /\ lastop' = "prepare_ralph_wiggum_retry"
    /\ UNCHANGED pipeVars
    /\ IF ~can_ralph_wiggum_retry
       THEN /\ ret' = "False"
            /\ UNCHANGED ctxState
       ELSE /\ review_attempt' = increment_attempt_val
            /\ ralph_wiggum_feedback' = None
            /\ ret' = "True"
            /\ UNCHANGED <<ralph_wiggum_threshold, max_attempts, review_notes,
                           iteration_history, file_snapshots, previous_outputs>>

increment_attempt ==
    /\ lastop' = "increment_attempt"
    /\ UNCHANGED pipeVars
    /\ ret' = BoolStr(increment_attempt_ret)
    /\ review_attempt' = increment_attempt_val
    /\ UNCHANGED <<ralph_wiggum_feedback, ralph_wiggum_threshold, max_attempts,
                   review_notes, iteration_history, file_snapshots,
                   previous_outputs>>

add_note ==
    /\ Len(review_notes) < MaxList
    /\ review_notes' = Append(review_notes, "note")
    /\ lastop' = "add_note"
    /\ UNCHANGED pipeVars
    /\ ret' = "None"
    /\ UNCHANGED <<ralph_wiggum_feedback, ralph_wiggum_threshold, review_attempt,
                   max_attempts, iteration_history, file_snapshots,
                   previous_outputs>>

AddHistoryEntry ==
    /\ Len(iteration_history) < MaxHist
    /\ iteration_history' = add_history_entry(CustomEntry)
    /\ lastop' = "add_history_entry"
    /\ UNCHANGED pipeVars
    /\ ret' = "None"
    /\ UNCHANGED <<ralph_wiggum_feedback, ralph_wiggum_threshold, review_attempt,
                   max_attempts, review_notes, file_snapshots, previous_outputs>>

save_iteration_snapshot ==
    /\ Len(file_snapshots) < MaxList
    /\ file_snapshots' = Append(file_snapshots, "files")
    /\ lastop' = "save_iteration_snapshot"
    /\ UNCHANGED pipeVars
    /\ ret' = "None"
    /\ UNCHANGED <<ralph_wiggum_feedback, ralph_wiggum_threshold, review_attempt,
                   max_attempts, review_notes, iteration_history,
                   previous_outputs>>

add_previous_output ==
    /\ Len(previous_outputs) < MaxList
    /\ previous_outputs' = Append(previous_outputs, "summary")
    /\ lastop' = "add_previous_output"
    /\ UNCHANGED pipeVars
    /\ ret' = "None"
    /\ UNCHANGED <<ralph_wiggum_feedback, ralph_wiggum_threshold, review_attempt,
                   max_attempts, review_notes, iteration_history, file_snapshots>>

(***************************************************************************)
(* orchestrator_cli.py: the data of the pipeline                           *)
(***************************************************************************)
FileActions == {"create_file", "edit_file"}

Task(i, path, action) ==
    [step_id |-> i, file_path |-> path, action_type |-> action]

Paths == {"a.py", "notes.md"}
Absent == "<absent>"

\* What _extract_code_content gives for an agent's output: nothing, a stream
\* JSON payload ('{' first and '"type"' inside), Python that parses, Python
\* that does not.
Contents == {"", "stream", "good", "bad"}
\* The agent call itself may raise (RuntimeError of _run_shell_command or
\* _run_api_tool).
AgentResults == Contents \cup {"raise"}

IsStreamJson(c) == c = "stream"
SyntaxOk(c) == c # "bad"
EndsWithPy(path) == path = "a.py"

\* max_retries of run_claude_executor
ExecMaxRetries == 3
\* retries of the CommandExecutor main creates
MainRetries == 1

\* subprocess.run(...).returncode: 0, a failure, and -1 (killed by signal 1)
ReturnCodes == {0, 1, -1}
Outcomes ==
    {[raised |-> FALSE, rc |-> c] : c \in ReturnCodes}
        \cup {[raised |-> TRUE, rc |-> -1]}

ExecutionLog(step, ok, msg, out) ==
    [step_id |-> step, success |-> ok, message |-> msg, output |-> out]

NoEffects == [wrote |-> FALSE, diff |-> FALSE, appended |-> <<>>]

\* _generate_diff: empty iff the two contents are the same
generate_diff(old, new) == IF old = new THEN <<>> ELSE <<"diff", old, new>>

CurrentTask == implementation_plan[task_idx]

\* no helper function called on its own
FnIdle ==
    /\ input = <<>>
    /\ output = <<>>

\* the stage 1 and 2 fields of a new context
IdeasIdle ==
    /\ brainstorming_ideas = <<>>
    /\ refined_brainstorming = <<>>
    /\ selected_approach = <<>>
    /\ approach_prompts = <<>>

\* the same fields once an approach of the refined brainstorming is selected
IdeasChosen ==
    /\ brainstorming_ideas = <<"options">>
    /\ refined_brainstorming = <<"options">>
    /\ selected_approach = <<"### Approach 1: X">>
    /\ approach_prompts = <<"choice">>

RunIdle ==
    /\ attempt = 0
    /\ logs = <<>>
    /\ attempts_data = <<>>
    /\ final_status = ""
    /\ final_exit_code = None
    /\ final_output = ""
    /\ confirmed = "unasked"
    /\ log_writes = 0
    /\ run_ret = None

ExecIdle ==
    /\ existing_code = ""
    /\ exec_attempt = 0
    /\ agent_calls = 0
    /\ code_content = None
    /\ exec_effects = NoEffects

LoopIdle ==
    /\ fix_iteration = 0
    /\ fix_iteration_count = 0
    /\ code_review_result = None
    /\ review_output = "none"
    /\ choice = None
    /\ items_to_fix = <<>>
    /\ dispatched = <<>>
    /\ review_calls = 0
    /\ sorted_items = <<>>
    /\ fix_idx = 1
    /\ fix_attempt = 0
    /\ fix_execution_logs = <<>>

PipeIdle ==
    /\ auto_run = FALSE
    /\ DEBUG = FALSE
    /\ skip_review = FALSE
    /\ max_fix_iterations = 1
    /\ auto_fix = FALSE
    /\ auto_select = FALSE
    /\ LoopIdle
    /\ auto_approve = FALSE
    /\ retries = MainRetries
    /\ execution_counter = 0
    /\ log_directory = <<>>
    /\ RunIdle
    /\ pc = "idle"
    /\ implementation_plan = <<>>
    /\ task_idx = 1
    /\ execution_logs = <<>>
    /\ generated_diffs = [p \in Paths |-> <<>>]
    /\ files = [p \in Paths |-> Absent]
    /\ exception = "none"
    /\ IdeasIdle
    /\ FnIdle
    /\ ExecIdle

(***************************************************************************)
(* CommandExecutor.run                                                     *)
(***************************************************************************)
max_attempts_of_one_more(r) == 2 + r

\* line 204: max_attempts = 1 + self.retries
max_attempts_of(r) == 1 + r

Summary(id, status, code, atts) ==
    [command_id |-> id, total_attempts |-> Len(atts), final_status |-> status,
     final_exit_code |-> code, attempts |-> atts]

\* _write_execution_log: one file per command_id, rewritten if it exists
write_execution_log(summary) ==
    /\ log_directory' = (summary.command_id :> summary) @@ log_directory
    /\ log_writes' = log_writes + 1

\* lines 204-208: the locals of the attempt loop
LoopLocals ==
    /\ attempt' = 0
    /\ final_status' = "failed"
    /\ final_exit_code' = None
    /\ final_output' = ""
    /\ pc' = IF max_attempts_of(retries) > 0 THEN "cmd_attempt" ELSE "cmd_finish"

\* lines 177-182: run up to the confirmation gate; approve is the executor's
\* auto_approve at the call
run_begin(approve) ==
    /\ execution_counter' = execution_counter + 1
    /\ logs' = <<>>
    /\ attempts_data' = <<>>
    /\ confirmed' = "unasked"
    /\ log_writes' = 0
    /\ run_ret' = None
    /\ IF ~approve
       THEN /\ pc' = "confirm"
            /\ UNCHANGED <<attempt, final_status, final_exit_code, final_output>>
       ELSE LoopLocals

Confirm_skip_unlogged ==
    /\ pc = "confirm"
    /\ \E should_run \in BOOLEAN :
         IF ~should_run
         THEN /\ confirmed' = "denied"
              /\ run_ret' = Some([success |-> FALSE, output |-> "skipped by user",
                                  logs |-> <<>>])
              /\ pc' = "cmd_returned"
              /\ UNCHANGED <<attempt, final_status, final_exit_code,
                             final_output, log_directory, log_writes>>
         ELSE /\ confirmed' = "granted"
              /\ LoopLocals
              /\ UNCHANGED <<log_directory, log_writes, run_ret>>
    /\ UNCHANGED <<logs, attempts_data, auto_approve, retries, execution_counter>>
    /\ UNCHANGED <<fnVars, ideaVars, cfgVars, implementation_plan, task_idx, execution_logs,
                   generated_diffs, files, execVars, loopVars, ctxVars,
                   exception>>

\* lines 183-202: typer.confirm and the skipped outcome
Confirm ==
    /\ pc = "confirm"
    /\ \E should_run \in BOOLEAN :
         IF ~should_run
         THEN /\ confirmed' = "denied"
              /\ write_execution_log(
                     Summary(execution_counter, "skipped", None, <<>>))
              /\ run_ret' = Some([success |-> FALSE, output |-> "skipped by user",
                                  logs |-> <<>>])
              /\ pc' = "cmd_returned"
              /\ UNCHANGED <<attempt, final_status, final_exit_code, final_output>>
         ELSE /\ confirmed' = "granted"
              /\ LoopLocals
              /\ UNCHANGED <<log_directory, log_writes, run_ret>>
    /\ UNCHANGED <<logs, attempts_data, auto_approve, retries, execution_counter>>
    /\ UNCHANGED <<fnVars, ideaVars, cfgVars, implementation_plan, task_idx, execution_logs,
                   generated_diffs, files, execVars, loopVars, ctxVars,
                   exception>>

LogEntry_zero_based(o) == [attempt |-> attempt, exit_code |-> o.rc, raised |-> o.raised]

\* lines 228-237 and 263-272: the entry of the attempt in progress
LogEntry(o) == [attempt |-> attempt + 1, exit_code |-> o.rc, raised |-> o.raised]

\* lines 210-300: one pass of `for attempt in range(max_attempts)`
CmdAttempt ==
    /\ pc = "cmd_attempt"
    /\ attempt < max_attempts_of(retries)
    /\ \E o \in Outcomes :
         /\ logs' = Append(logs, LogEntry(o))
         /\ attempts_data' = Append(attempts_data, LogEntry(o))
         /\ final_exit_code' = Some(o.rc)
         /\ IF ~o.raised /\ o.rc = 0
            THEN /\ final_status' = "success"
                 /\ final_output' = "stdout"
                 /\ pc' = "cmd_finish"
                 /\ UNCHANGED attempt
            ELSE /\ final_output' = IF o.raised THEN "execution error"
                                    ELSE "failed with exit code"
                 /\ UNCHANGED final_status
                 /\ IF attempt < max_attempts_of(retries) - 1
                    THEN /\ attempt' = attempt + 1
                         /\ pc' = "cmd_attempt"
                    ELSE /\ pc' = "cmd_finish"
                         /\ UNCHANGED attempt
    /\ UNCHANGED <<confirmed, log_writes, run_ret, executorVars>>
    /\ UNCHANGED <<fnVars, ideaVars, cfgVars, implementation_plan, task_idx, execution_logs,
                   generated_diffs, files, execVars, loopVars, ctxVars,
                   exception>>

\* lines 302-328: the summary, its file, and the return
CmdFinish ==
    /\ pc = "cmd_finish"
    /\ write_execution_log(
           Summary(execution_counter, final_status, final_exit_code,
                   attempts_data))
    /\ run_ret' = Some([success |-> final_status = "success",
                        output |-> final_output, logs |-> logs])
    /\ pc' = "cmd_returned"
    /\ UNCHANGED <<attempt, logs, attempts_data, final_status, final_exit_code,
                   final_output, confirmed, auto_approve, retries,
                   execution_counter>>
    /\ UNCHANGED <<fnVars, ideaVars, cfgVars, implementation_plan, task_idx, execution_logs,
                   generated_diffs, files, execVars, loopVars, ctxVars,
                   exception>>

(***************************************************************************)
(* execute_run_command                                                     *)
(***************************************************************************)
Stage4RunCommand_ignores_auto_run ==
    /\ pc = "stage4"
    /\ task_idx <= Len(implementation_plan)
    /\ CurrentTask.action_type = "run_command"
    /\ run_begin(auto_approve)
    /\ UNCHANGED <<auto_approve, retries, log_directory>>
    /\ UNCHANGED <<fnVars, ideaVars, cfgVars, implementation_plan, task_idx, execution_logs,
                   generated_diffs, files, execVars, loopVars, ctxVars,
                   exception>>

\* lines 1027-1037, entered from main's task loop
Stage4RunCommand ==
    /\ pc = "stage4"
    /\ task_idx <= Len(implementation_plan)
    /\ CurrentTask.action_type = "run_command"
    /\ auto_approve' = IF auto_run /\ ~auto_approve THEN TRUE ELSE auto_approve
    /\ run_begin(auto_approve')
    /\ UNCHANGED <<retries, log_directory>>
    /\ UNCHANGED <<fnVars, ideaVars, cfgVars, implementation_plan, task_idx, execution_logs,
                   generated_diffs, files, execVars, loopVars, ctxVars,
                   exception>>

ExecuteRunCommandReturn_failure_raises ==
    /\ pc = "cmd_returned"
    /\ LET r == run_ret[1] IN
       /\ execution_logs' = Append(execution_logs,
              ExecutionLog(CurrentTask.step_id, r.success,
                           IF r.success THEN "Command executed"
                           ELSE "Command failed",
                           r.output))
       /\ pc' = IF r.success THEN "task_returned" ELSE "aborted"
       /\ exception' = IF r.success THEN exception ELSE "RuntimeError"
    /\ UNCHANGED <<fnVars, ideaVars, cfgVars, cmdVars, implementation_plan, task_idx,
                   generated_diffs, files, execVars, loopVars, ctxVars>>

\* lines 1039-1062
ExecuteRunCommandReturn ==
    /\ pc = "cmd_returned"
    /\ LET r == run_ret[1] IN
       execution_logs' = Append(execution_logs,
           ExecutionLog(CurrentTask.step_id, r.success,
                        IF r.success THEN "Command executed" ELSE "Command failed",
                        r.output))
    /\ pc' = "task_returned"
    /\ UNCHANGED <<fnVars, ideaVars, cfgVars, cmdVars, implementation_plan, task_idx,
                   generated_diffs, files, execVars, loopVars, ctxVars,
                   exception>>

(***************************************************************************)
(* OrchestrationContext.check_promise_completion                           *)
(***************************************************************************)
\* An agent output is a sequence of tokens: the two tags, the words DONE
\* (D) and done (d), a blank and a newline.
OpenTag == "<promise>"
CloseTag == "</promise>"
OutputTokens == {OpenTag, CloseTag, "D", "d", " ", "nl"}
Outputs == UNION { [1..n -> OutputTokens] : n \in 0..MaxOutput }

\* ralph_wiggum_completion_promise: None, or a string
CompletionPromises ==
    {None} \cup { Some(str) : str \in { <<>>, <<"D">>, <<"d">>,
                                       <<"D", " ", "D">>, <<" ", "D">> } }

IsSpace(c) == c \in {" ", "nl"}

\* str.strip()
RECURSIVE lstrip(_)
lstrip(str) ==
    IF str # <<>> /\ IsSpace(Head(str)) THEN lstrip(Tail(str)) ELSE str
RECURSIVE rstrip(_)
rstrip(str) ==
    IF str # <<>> /\ IsSpace(str[Len(str)])
    THEN rstrip(SubSeq(str, 1, Len(str) - 1))
    ELSE str
strip(str) == rstrip(lstrip(str))

\* (.*?)</promise> from position start, the group tried up to position j:
\* the shortest group first, any character in it (re.DOTALL)
RECURSIVE lazy_group(_, _, _)
lazy_group(out, start, j) ==
    IF j > Len(out) THEN None
    ELSE IF out[j] = CloseTag THEN Some(SubSeq(out, start, j - 1))
    ELSE lazy_group(out, start, j + 1)

\* re.search(pattern, output, re.DOTALL): the match at the leftmost position
\* that has one; None, or group(1)
RECURSIVE re_search(_, _)
re_search(out, i) ==
    IF i > Len(out) THEN None
    ELSE LET group == IF out[i] = OpenTag THEN lazy_group(out, i + 1, i + 1)
                      ELSE None
         IN  IF group # None THEN group ELSE re_search(out, i + 1)

check_promise_completion_unstripped(promise, out) ==
    IF promise = None \/ promise[1] = <<>> THEN FALSE
    ELSE LET match == re_search(out, 1) IN
         IF match # None THEN match[1] = promise[1]
         ELSE FALSE

\* check_promise_completion, lines 296-307
check_promise_completion(promise, out) ==
    IF promise = None \/ promise[1] = <<>> THEN FALSE
    ELSE LET match == re_search(out, 1) IN
         IF match # None THEN strip(match[1]) = promise[1]
         ELSE FALSE

\* a call of check_promise_completion on a context with the given promise
CheckPromiseCompletion ==
    /\ pc = "check_promise"
    /\ output = None
    /\ output' = Some(check_promise_completion(input.promise, input.output))
    /\ pc' = "returned"
    /\ UNCHANGED <<input, ideaVars, cfgVars, cmdVars, implementation_plan,
                   task_idx, execution_logs, generated_diffs, files,
                   exception, execVars, loopVars, ctxVars>>

(***************************************************************************)
(* _extract_json_list                                                      *)
(***************************************************************************)
\* A text is a sequence of tokens: the brackets of an array, a JSON object
\* (o), a JSON number (n), and a character that starts no JSON value (x).
\* Arrays of this alphabet hold at most one element, since there is no
\* comma.
Tokens == {"[", "]", "o", "n", "x"}
Texts == UNION { [1..n -> Tokens] : n \in 0..MaxText }

\* decoded JSON values
JsonNumber == [t |-> "number", name |-> "n", items |-> <<>>]
JsonObject(nm) == [t |-> "object", name |-> nm, items |-> <<>>]
JsonList(its) == [t |-> "list", name |-> "", items |-> its]

Decoded(v, e) == [ok |-> TRUE, val |-> v, end |-> e]
DecodeError == [ok |-> FALSE, val |-> JsonNumber, end |-> 0]

\* json.JSONDecoder().raw_decode(text[i:]): the value that starts at position
\* i and the position after it, or JSONDecodeError
RECURSIVE raw_decode(_, _)
raw_decode(text, i) ==
    IF i > Len(text) THEN DecodeError
    ELSE CASE text[i] = "o" -> Decoded(JsonObject(text[i]), i + 1)
           [] text[i] = "n" -> Decoded(JsonNumber, i + 1)
           [] text[i] = "[" ->
                IF i + 1 <= Len(text) /\ text[i + 1] = "]"
                THEN Decoded(JsonList(<<>>), i + 2)
                ELSE LET e == raw_decode(text, i + 1) IN
                     IF e.ok /\ e.end <= Len(text) /\ text[e.end] = "]"
                     THEN Decoded(JsonList(<<e.val>>), e.end + 1)
                     ELSE DecodeError
           [] OTHER -> DecodeError

\* json.loads(text): the whole text is one JSON value
json_loads(text) ==
    LET r == raw_decode(text, 1) IN
    IF r.ok /\ r.end = Len(text) + 1 THEN r ELSE DecodeError

\* text.find("[", idx): 0 for Python's -1
find_bracket(text, idx) ==
    IF \E j \in idx..Len(text) : text[j] = "["
    THEN CHOOSE j \in idx..Len(text) :
             /\ text[j] = "["
             /\ \A k \in idx..(j - 1) : text[k] # "["
    ELSE 0

\* line 619: a list whose every element is a dict
is_list_of_dicts(v) ==
    /\ v.t = "list"
    /\ \A k \in DOMAIN v.items : v.items[k].t = "object"

\* lines 609-621: the while loop, from position idx with the candidates
\* collected so far
RECURSIVE scan_candidates(_, _, _)
scan_candidates(text, idx, candidates) ==
    LET j == find_bracket(text, idx) IN
    IF j = 0 THEN candidates
    ELSE LET r == raw_decode(text, j) IN
         IF ~r.ok THEN scan_candidates(text, j + 1, candidates)
         ELSE scan_candidates(text, r.end,
                              IF is_list_of_dicts(r.val)
                              THEN Append(candidates, r.val)
                              ELSE candidates)

extract_json_list_first(text) ==
    LET whole == json_loads(text) IN
    IF whole.ok THEN whole.val
    ELSE LET candidates == scan_candidates(text, 1, <<>>) IN
         IF candidates # <<>> THEN candidates[1]
         ELSE JsonList(<<>>)

\* _extract_json_list, lines 600-624
extract_json_list(text) ==
    LET whole == json_loads(text) IN
    IF whole.ok THEN whole.val
    ELSE LET candidates == scan_candidates(text, 1, <<>>) IN
         IF candidates # <<>> THEN candidates[Len(candidates)]
         ELSE JsonList(<<>>)

\* a call of _extract_json_list on its own
ExtractJsonList ==
    /\ pc = "extract"
    /\ output = None
    /\ output' = Some(extract_json_list(input))
    /\ pc' = "returned"
    /\ UNCHANGED <<input, ideaVars, cfgVars, cmdVars, implementation_plan,
                   task_idx, execution_logs, generated_diffs, files,
                   exception, execVars, loopVars, ctxVars>>

(***************************************************************************)
(* _generate_diff                                                          *)
(***************************************************************************)
\* A content is a sequence of characters: two letters and the newline.
ContentChars == {"a", "b", "nl"}
FileContents == UNION { [1..n -> ContentChars] : n \in 0..MaxContent }

\* str.splitlines(keepends=True): the lines, each with its newline
RECURSIVE splitlines(_, _)
splitlines(content, line) ==
    IF content = <<>> THEN (IF line = <<>> THEN <<>> ELSE <<line>>)
    ELSE IF Head(content) = "nl"
         THEN <<Append(line, "nl")>> \o splitlines(Tail(content), <<>>)
         ELSE splitlines(Tail(content), Append(line, Head(content)))

\* SequenceMatcher.find_longest_match on a[alo..ahi] and b[blo..bhi]
\* (positions from 1, both ends included): the longest block, the one
\* earliest in a, then earliest in b; size 0 when no line matches
Blocks(a, alo, ahi, b, blo, bhi) ==
    {m \in [i : alo..ahi, j : blo..bhi, size : 1..(ahi - alo + 1)] :
        /\ m.i + m.size - 1 <= ahi
        /\ m.j + m.size - 1 <= bhi
        /\ \A k \in 0..(m.size - 1) : a[m.i + k] = b[m.j + k]}

find_longest_match(a, alo, ahi, b, blo, bhi) ==
    LET S == Blocks(a, alo, ahi, b, blo, bhi) IN
    IF S = {} THEN [i |-> alo, j |-> blo, size |-> 0]
    ELSE CHOOSE m \in S : \A q \in S :
             \/ m.size > q.size
             \/ m.size = q.size /\ m.i < q.i
             \/ m.size = q.size /\ m.i = q.i /\ m.j <= q.j

Prefixed(sign, lines) == [k \in DOMAIN lines |-> <<sign>> \o lines[k]]

\* the lines of a hunk for a[alo..ahi] and b[blo..bhi]: get_matching_blocks
\* splits at the longest match, and each stretch without a match gives its
\* old lines with '-' and then its new lines with '+' (get_opcodes and
\* lines 1210-1225 of difflib.unified_diff); every equal line is within the
\* three lines of context of a change
RECURSIVE hunk_lines(_, _, _, _, _, _)
hunk_lines(a, alo, ahi, b, blo, bhi) ==
    LET m == find_longest_match(a, alo, ahi, b, blo, bhi) IN
    IF m.size = 0
    THEN Prefixed("-", SubSeq(a, alo, ahi)) \o Prefixed("+", SubSeq(b, blo, bhi))
    ELSE hunk_lines(a, alo, m.i - 1, b, blo, m.j - 1)
             \o Prefixed(" ", SubSeq(a, m.i, m.i + m.size - 1))
             \o hunk_lines(a, m.i + m.size, ahi, b, m.j + m.size, bhi)

\* difflib.unified_diff(..., lineterm=""): nothing for equal sequences,
\* else the two file headers, the hunk header and the lines of the hunk
unified_diff(a, b) ==
    IF a = b THEN <<>>
    ELSE << <<"---">>, <<"+++">>, <<"@@">> >>
             \o hunk_lines(a, 1, Len(a), b, 1, Len(b))

\* "".join(...)
RECURSIVE join(_)
join(pieces) ==
    IF pieces = <<>> THEN <<>> ELSE Head(pieces) \o join(Tail(pieces))

generate_diff_text_stripped(old, new) ==
    join(unified_diff(splitlines(SelectSeq(old, LAMBDA c : c # "nl"), <<>>),
                      splitlines(SelectSeq(new, LAMBDA c : c # "nl"), <<>>)))

\* _generate_diff, lines 670-682
generate_diff_text(old, new) ==
    join(unified_diff(splitlines(old, <<>>), splitlines(new, <<>>)))

\* a call of _generate_diff on its own
GenerateDiff ==
    /\ pc = "generate_diff"
    /\ output = None
    /\ output' = Some(generate_diff_text(input.old, input.new))
    /\ pc' = "returned"
    /\ UNCHANGED <<input, ideaVars, cfgVars, cmdVars, implementation_plan,
                   task_idx, execution_logs, generated_diffs, files,
                   exception, execVars, loopVars, ctxVars>>

(***************************************************************************)
(* main, stages 1 and 2: run_gemini_brainstorm, run_codex_brainstorm_review *)
(* and the selection of an approach                                        *)
(***************************************************************************)
\* An agent's answer in stages 1 and 2: no text, or a text with one heading
\* that option_pattern matches.
IdeaTexts == {"", "options"}
IdeaOutputs == IdeaTexts \cup {"raise"}

\* main, lines 1595-1647: the headings found in the text
options_of(text) == IF text = "options" THEN <<"### Approach 1: X">> ELSE <<>>

\* run_gemini_brainstorm, lines 688-732 (called at main line 1559)
RunGeminiBrainstorm ==
    /\ pc = "stage1"
    /\ \E out \in IdeaOutputs :
         IF out = "raise"
         THEN /\ pc' = "aborted"
              /\ exception' = "RuntimeError"
              /\ UNCHANGED brainstorming_ideas
         ELSE /\ pc' = "stage2"
              /\ brainstorming_ideas' = Some(out)
              /\ UNCHANGED exception
    /\ UNCHANGED <<refined_brainstorming, selected_approach, approach_prompts>>
    /\ UNCHANGED <<fnVars, cfgVars, cmdVars, implementation_plan, task_idx,
                   execution_logs, generated_diffs, files, execVars, loopVars,
                   ctxVars>>

\* run_codex_brainstorm_review, lines 735-789 (called at main line 1579)
RunCodexBrainstormReview ==
    /\ pc = "stage2"
    /\ \E out \in IdeaOutputs :
         IF out = "raise"
         THEN /\ pc' = "aborted"
              /\ exception' = "RuntimeError"
              /\ UNCHANGED refined_brainstorming
         ELSE /\ pc' = "select_approach"
              /\ refined_brainstorming' = Some(out)
              /\ UNCHANGED exception
    /\ UNCHANGED <<brainstorming_ideas, selected_approach, approach_prompts>>
    /\ UNCHANGED <<fnVars, cfgVars, cmdVars, implementation_plan, task_idx,
                   execution_logs, generated_diffs, files, execVars, loopVars,
                   ctxVars>>

\* main, lines 1590-1594: the refined text unless it is empty
ideas_to_use ==
    IF refined_brainstorming # None /\ refined_brainstorming[1] # ""
    THEN refined_brainstorming[1]
    ELSE brainstorming_ideas[1]

\* main, lines 1677-1688: the approach for a choice
approach_for(number) ==
    LET options == options_of(ideas_to_use) IN
    IF 1 <= number /\ number <= Len(options) THEN options[number]
    ELSE IF number = Len(options) + 1 THEN "custom"
    ELSE IF options # <<>> THEN options[1] ELSE ideas_to_use

\* main, lines 1655-1662: default_choice is 1 unless the goal names the
\* pytest command and a later option does too; an option list holds one
\* option at most here
default_choice == 1

\* main, lines 1664-1681: the calls of typer.prompt for a choice: the number
\* unless auto_select is set, and the custom approach when the choice is one
\* past the last option
prompts_for(asked, number) ==
    (IF asked THEN <<"choice">> ELSE <<>>)
        \o (IF number = Len(options_of(ideas_to_use)) + 1
            THEN <<"custom">> ELSE <<>>)

\* main, lines 1590-1692: auto_select takes default_choice, the prompt any
\* integer
SelectApproach ==
    /\ pc = "select_approach"
    /\ \E number \in IF auto_select THEN {default_choice} ELSE 0..3 :
         /\ selected_approach' = Some(approach_for(number))
         /\ approach_prompts' = prompts_for(~auto_select, number)
    /\ pc' = "stage3"
    /\ UNCHANGED <<brainstorming_ideas, refined_brainstorming>>
    /\ UNCHANGED <<fnVars, cfgVars, cmdVars, implementation_plan, task_idx,
                   execution_logs, generated_diffs, files, execVars, loopVars,
                   ctxVars, exception>>

(***************************************************************************)
(* main, stage 3: run_codex_planning                                       *)
(***************************************************************************)
\* an element of the planner's JSON list: an object that validates as a Task,
\* or anything else (an object Task(**item) rejects, or no object at all)
PlanItem(path, action) == [valid |-> TRUE, file_path |-> path, action_type |-> action]
BadItem == [valid |-> FALSE, file_path |-> ".", action_type |-> "other"]

\* What _extract_json_list makes of the planner's output: the agent call
\* raises; the text holds no JSON list of objects; the whole text is a JSON
\* number, boolean or null; the whole text is a JSON object or string; or a
\* list with its elements.
PlannerLists ==
    { <<>>,
      <<BadItem>>,
      <<PlanItem(".", "run_command")>>,
      <<PlanItem(".", "other")>>,
      <<PlanItem(".", "run_command"), PlanItem("a.py", "create_file")>>,
      <<PlanItem("notes.md", "edit_file"), PlanItem(".", "run_command")>>,
      <<PlanItem(".", "run_command"), BadItem, PlanItem(".", "run_command")>> }

PlannerOutputs ==
    { [kind |-> k, items |-> <<>>] :
        k \in {"raise", "no_json", "json_scalar", "json_object"} }
    \cup { [kind |-> "list", items |-> l] : l \in PlannerLists }

\* the loop, were the try around it and not inside it: the first failure
\* ends the loop
tasks_of_stop_at_first_bad(items) ==
    LET F[k \in 0..Len(items)] ==
            IF k = 0 THEN <<>>
            ELSE IF \A j \in 1..k : items[j].valid
                 THEN Append(F[k - 1],
                             Task(k, items[k].file_path, items[k].action_type))
                 ELSE F[k - 1]
    IN  F[Len(items)]

\* lines 844-851: Task(**item) for each element, the failures skipped; the
\* step_id is the one the planner gave, here the position in its list
tasks_of(items) ==
    LET F[k \in 0..Len(items)] ==
            IF k = 0 THEN <<>>
            ELSE IF items[k].valid
                 THEN Append(F[k - 1],
                             Task(k, items[k].file_path, items[k].action_type))
                 ELSE F[k - 1]
    IN  F[Len(items)]

\* the exception that leaves run_codex_planning for an output: the agent
\* call's RuntimeError, or the TypeError of `for item in json_plan` over a
\* value json.loads returned that is not iterable
planning_exception(kind) ==
    CASE kind = "raise" -> "RuntimeError"
      [] kind = "json_scalar" -> "TypeError"
      [] OTHER -> "none"

\* run_codex_planning, lines 792-853
RunCodexPlanning ==
    /\ pc = "stage3"
    /\ \E out \in PlannerOutputs :
         /\ exception' = planning_exception(out.kind)
         /\ IF exception' # "none"
            THEN /\ pc' = "aborted"
                 /\ UNCHANGED implementation_plan
            ELSE /\ pc' = "planned"
                 /\ implementation_plan' = tasks_of(out.items)
    /\ UNCHANGED <<fnVars, ideaVars, cfgVars, cmdVars, task_idx, execution_logs,
                   generated_diffs, files, execVars, loopVars, ctxVars>>

\* main, lines 1702-1726: an empty plan ends main, any other starts stage 4
Stage3Done ==
    /\ pc = "planned"
    /\ pc' = IF implementation_plan = <<>> THEN "no_plan" ELSE "stage4"
    /\ task_idx' = 1
    /\ UNCHANGED <<fnVars, ideaVars, cfgVars, cmdVars, implementation_plan, execution_logs,
                   generated_diffs, files, execVars, loopVars, ctxVars,
                   exception>>

\* lines 1873-1874: the status app() exits with once main has ended; a
\* return of main gives 0, an exception that leaves main gives 1
exit_status == IF exception # "none" THEN 1 ELSE 0

(***************************************************************************)
(* main, stage 4: the task loop                                            *)
(***************************************************************************)
Stage4Advance_before_return ==
    /\ pc \in {"task_returned", "cmd_attempt"}
    /\ task_idx' = task_idx + 1
    /\ pc' = "stage4"
    /\ code_content' = None
    /\ UNCHANGED <<fnVars, ideaVars, cfgVars, cmdVars, implementation_plan,
                   execution_logs, generated_diffs, files, existing_code,
                   exec_attempt, agent_calls, exec_effects, loopVars,
                   ctxVars, exception>>

\* line 1741 and the next pass of the loop; the locals of the call that
\* returned are gone
Stage4Advance ==
    /\ pc = "task_returned"
    /\ task_idx' = task_idx + 1
    /\ pc' = "stage4"
    /\ code_content' = None
    /\ UNCHANGED <<fnVars, ideaVars, cfgVars, cmdVars, implementation_plan,
                   execution_logs, generated_diffs, files, existing_code,
                   exec_attempt, agent_calls, exec_effects, loopVars,
                   ctxVars, exception>>

\* a task that is neither a file task nor a command: no branch of the loop
Stage4OtherTask ==
    /\ pc = "stage4"
    /\ task_idx <= Len(implementation_plan)
    /\ CurrentTask.action_type \notin FileActions \cup {"run_command"}
    /\ pc' = "task_returned"
    /\ UNCHANGED <<fnVars, ideaVars, cfgVars, cmdVars, implementation_plan, task_idx,
                   execution_logs, generated_diffs, files, execVars, loopVars, ctxVars,
                   exception>>

\* lines 1743-1749
Stage4Done ==
    /\ pc = "stage4"
    /\ task_idx > Len(implementation_plan)
    /\ pc' = "stage4_done"
    /\ UNCHANGED <<fnVars, ideaVars, cfgVars, cmdVars, implementation_plan, task_idx,
                   execution_logs, generated_diffs, files, execVars, loopVars, ctxVars,
                   exception>>

(***************************************************************************)
(* run_claude_executor                                                     *)
(***************************************************************************)
needs_retry_any_file(path, content, attempt_no, max_retries) ==
    /\ content # ""
    /\ ~SyntaxOk(content)
    /\ attempt_no < max_retries

\* lines 963-975 (and 1362-1374 of run_claude_fixer): the content of a .py
\* file does not parse and an attempt is left, so the loop continues
needs_retry(path, content, attempt_no, max_retries) ==
    /\ EndsWithPy(path)
    /\ content # ""
    /\ ~SyntaxOk(content)
    /\ attempt_no < max_retries

\* lines 1010-1015: the record appended when the attempt loop runs out
ExecExhausted ==
    /\ execution_logs' = Append(execution_logs,
           ExecutionLog(CurrentTask.step_id, FALSE, "max retries exceeded", ""))
    /\ exec_effects' = [exec_effects EXCEPT !.appended = Append(@, FALSE)]
    /\ pc' = "task_returned"

\* main lines 1728-1736 and run_claude_executor lines 860-886
Stage4FileTask ==
    /\ pc = "stage4"
    /\ task_idx <= Len(implementation_plan)
    /\ CurrentTask.action_type \in FileActions
    /\ existing_code' = IF files[CurrentTask.file_path] = Absent THEN ""
                        ELSE files[CurrentTask.file_path]
    /\ exec_attempt' = 0
    /\ agent_calls' = 0
    /\ code_content' = None
    /\ IF ExecMaxRetries + 1 > 0
       THEN /\ pc' = "exec_attempt"
            /\ exec_effects' = NoEffects
            /\ UNCHANGED execution_logs
       ELSE /\ execution_logs' = Append(execution_logs,
                   ExecutionLog(CurrentTask.step_id, FALSE,
                                "max retries exceeded", ""))
            /\ exec_effects' = [NoEffects EXCEPT !.appended = <<FALSE>>]
            /\ pc' = "task_returned"
    /\ UNCHANGED <<fnVars, ideaVars, cfgVars, cmdVars, implementation_plan, task_idx,
                   generated_diffs, files, loopVars, ctxVars,
                   exception>>

\* the return of run_claude_executor after appending a record
ExecAppendAndReturn(ok, msg) ==
    /\ execution_logs' = Append(execution_logs,
           ExecutionLog(CurrentTask.step_id, ok, msg, ""))
    /\ exec_effects' = [exec_effects EXCEPT !.appended = Append(@, ok)]
    /\ pc' = "task_returned"

\* the retry a stream JSON payload would get were it handled as content that
\* does not parse
StreamJsonSkip_retry ==
    /\ UNCHANGED <<files, generated_diffs>>
    /\ IF exec_attempt < ExecMaxRetries
       THEN /\ exec_attempt' = exec_attempt + 1
            /\ pc' = "exec_attempt"
            /\ UNCHANGED <<execution_logs, exec_effects>>
       ELSE /\ ExecExhausted
            /\ UNCHANGED exec_attempt

\* lines 934-946: the failure record and the return, with nothing written
StreamJsonSkip ==
    /\ ExecAppendAndReturn(FALSE, "looked like stream JSON")
    /\ UNCHANGED <<files, generated_diffs, exec_attempt>>

\* lines 984-1008: the file write, the diff and the success record
ExecWrite(content, write_ok) ==
    IF write_ok
    THEN /\ files' = [files EXCEPT ![CurrentTask.file_path] = content]
         /\ generated_diffs' =
                [generated_diffs EXCEPT ![CurrentTask.file_path] =
                     generate_diff(existing_code, content)]
         /\ execution_logs' = Append(execution_logs,
                ExecutionLog(CurrentTask.step_id, TRUE, "file written", ""))
         /\ exec_effects' = [wrote |-> TRUE, diff |-> TRUE,
                             appended |-> Append(exec_effects.appended, TRUE)]
         /\ pc' = "task_returned"
         /\ UNCHANGED exec_attempt
    ELSE \* except Exception: print and return
         /\ pc' = "task_returned"
         /\ UNCHANGED <<files, generated_diffs, execution_logs, exec_effects,
                        exec_attempt>>

\* lines 887-1008: one pass of `for attempt in range(max_retries + 1)`
RunClaudeExecutorAttempt ==
    /\ pc = "exec_attempt"
    /\ agent_calls' = agent_calls + 1
    /\ \E out \in AgentResults, write_ok \in BOOLEAN :
         /\ exception' = IF out = "raise" THEN "RuntimeError" ELSE exception
         /\ IF out = "raise"
            THEN /\ pc' = "aborted"
                 /\ UNCHANGED <<files, generated_diffs, execution_logs,
                                exec_effects, exec_attempt>>
            ELSE IF IsStreamJson(out)
            THEN StreamJsonSkip
            ELSE IF DEBUG /\ out = ""
            THEN /\ ExecAppendAndReturn(FALSE, "empty after parsing")
                 /\ UNCHANGED <<files, generated_diffs, exec_attempt>>
            ELSE IF needs_retry(CurrentTask.file_path, out, exec_attempt,
                                ExecMaxRetries)
            THEN /\ exec_attempt' = exec_attempt + 1
                 /\ pc' = "exec_attempt"
                 /\ UNCHANGED <<files, generated_diffs, execution_logs,
                                exec_effects>>
            ELSE IF CurrentTask.action_type \in FileActions
            THEN ExecWrite(out, write_ok)
            ELSE /\ UNCHANGED <<files, generated_diffs>>
                 /\ IF exec_attempt < ExecMaxRetries
                    THEN /\ exec_attempt' = exec_attempt + 1
                         /\ pc' = "exec_attempt"
                         /\ UNCHANGED <<execution_logs, exec_effects>>
                    ELSE /\ ExecExhausted
                         /\ UNCHANGED exec_attempt
         /\ code_content' = IF out = "raise" THEN None ELSE Some(out)
    /\ UNCHANGED <<fnVars, ideaVars, cfgVars, cmdVars, implementation_plan,
                   task_idx, existing_code, loopVars, ctxVars>>

(***************************************************************************)
(* main, stages 5 and 6: run_codex_code_review, _prompt_fix_selection,     *)
(* run_claude_fixer and the loop around them                               *)
(***************************************************************************)
\* max_retries of run_claude_fixer
FixMaxRetries == 2

\* line 1818: severity_order
severity_order == <<"critical", "high", "medium", "low", "info">>
severity_index(sev) ==
    CHOOSE k \in DOMAIN severity_order : severity_order[k] = sev

ReviewItem(id, path, sev) ==
    [item_id |-> id, file_path |-> path, severity |-> sev]

CodeReviewResult(its, fixes, call) ==
    [items |-> its, requires_fixes |-> fixes, produced_by |-> call]

\* What the reviewer's output parses to: the agent call raises; the text has
\* no {...} span; the span does not decode; "items" is not iterable
\* (TypeError at line 1180); a field of the result does not validate
\* (pydantic ValidationError at line 1201); or an object with its items.
ParsedReviews ==
    { [items |-> <<>>, requires_fixes |-> TRUE],
      [items |-> <<ReviewItem(1, "a.py", "high")>>, requires_fixes |-> FALSE],
      [items |-> <<ReviewItem(1, "notes.md", "medium")>>,
       requires_fixes |-> TRUE],
      [items |-> <<ReviewItem(1, "a.py", "high"),
                   ReviewItem(2, "notes.md", "high")>>,
       requires_fixes |-> TRUE],
      [items |-> <<ReviewItem(1, "a.py", "low"),
                   ReviewItem(2, "a.py", "critical")>>,
       requires_fixes |-> TRUE] }

ReviewOutputs ==
    { [kind |-> k, items |-> <<>>, requires_fixes |-> FALSE] :
        k \in {"raise", "no_json", "decode_error", "items_not_iterable",
               "invalid_field"} }
    \cup { [kind |-> "parsed", items |-> r.items,
            requires_fixes |-> r.requires_fixes] : r \in ParsedReviews }

\* The answer to "Enter your choice": a mode letter, or a comma-separated
\* list whose entries are integers, other text, or empty.
Entry(n) == [kind |-> "int", val |-> n]
NotANumber == [kind |-> "text", val |-> 0]
EmptyEntry == [kind |-> "empty", val |-> 0]
Choice(m, es) == [mode |-> m, entries |-> es]

\* the answers the review loop is driven with
LoopChoices ==
    { Choice("a", <<>>), Choice("n", <<>>), Choice("c", <<>>),
      Choice("list", <<Entry(2), Entry(1)>>),
      Choice("list", <<Entry(1), NotANumber>>),
      Choice("list", <<Entry(0), Entry(3)>>) }

\* int(x.strip()) raises ValueError
int_raises(entry) == entry.kind # "int"

items_at_zero_based(items, entries) ==
    LET F[k \in 0..Len(entries)] ==
            IF k = 0 THEN <<>>
            ELSE LET i == entries[k].val
                 IN  IF 0 <= i /\ i < Len(items)
                     THEN Append(F[k - 1], items[i + 1])
                     ELSE F[k - 1]
    IN  F[Len(entries)]

\* lines 1277-1278: int(x.strip()) - 1 for each entry, then the items at the
\* indices that are in range
items_at(items, entries) ==
    LET F[k \in 0..Len(entries)] ==
            IF k = 0 THEN <<>>
            ELSE LET i == entries[k].val - 1
                 IN  IF 0 <= i /\ i < Len(items)
                     THEN Append(F[k - 1], items[i + 1])
                     ELSE F[k - 1]
    IN  F[Len(entries)]

Selected(its) == [error |-> "none", items |-> its]

prompt_fix_selection_uncaught(items, answer) ==
    IF items = <<>> THEN Selected(<<>>)
    ELSE IF answer.mode = "a" THEN Selected(items)
    ELSE IF answer.mode = "n" THEN Selected(<<>>)
    ELSE IF answer.mode = "c"
    THEN LET keep(it) == it.severity \in {"critical", "high"}
         IN  Selected(SelectSeq(items, keep))
    ELSE IF \E k \in DOMAIN answer.entries : int_raises(answer.entries[k])
    THEN [error |-> "ValueError", items |-> <<>>]
    ELSE Selected(items_at(items, answer.entries))

\* _prompt_fix_selection, lines 1224-1281: the selection, and the exception
\* that leaves the function
prompt_fix_selection(items, answer) ==
    IF items = <<>> THEN Selected(<<>>)
    ELSE IF answer.mode = "a" THEN Selected(items)
    ELSE IF answer.mode = "n" THEN Selected(<<>>)
    ELSE IF answer.mode = "c"
    THEN LET keep(it) == it.severity \in {"critical", "high"}
         IN  Selected(SelectSeq(items, keep))
    ELSE IF \E k \in DOMAIN answer.entries : int_raises(answer.entries[k])
    THEN Selected(<<>>)   \* except (ValueError, IndexError)
    ELSE Selected(items_at(items, answer.entries))

sorted_by_severity_unstable(items) ==
    LET Insert(acc, it) ==
            LET pos == Cardinality({k \in DOMAIN acc :
                          severity_index(acc[k].severity)
                              < severity_index(it.severity)})
            IN  SubSeq(acc, 1, pos) \o <<it>> \o SubSeq(acc, pos + 1, Len(acc))
        F[k \in 0..Len(items)] ==
            IF k = 0 THEN <<>> ELSE Insert(F[k - 1], items[k])
    IN  F[Len(items)]

\* sorted(items_to_fix, key=severity index): stable
sorted_by_severity(items) ==
    LET Insert(acc, it) ==
            LET pos == Cardinality({k \in DOMAIN acc :
                          severity_index(acc[k].severity)
                              <= severity_index(it.severity)})
            IN  SubSeq(acc, 1, pos) \o <<it>> \o SubSeq(acc, pos + 1, Len(acc))
        F[k \in 0..Len(items)] ==
            IF k = 0 THEN <<>> ELSE Insert(F[k - 1], items[k])
    IN  F[Len(items)]

\* every list of findings the reviewer can emit, up to MaxItems, numbered in
\* emission order
ItemLists ==
    UNION { { [i \in 1..n |-> ReviewItem(i, "a.py", sev[i])] :
                sev \in [1..n -> {severity_order[k] : k \in DOMAIN severity_order}] } :
            n \in 0..MaxItems }

\* every answer: the three mode letters, and every list of up to MaxEntries
\* entries
EntryValues == {Entry(n) : n \in -1..4} \cup {NotANumber, EmptyEntry}
AllChoices ==
    {Choice(m, <<>>) : m \in {"a", "n", "c"}}
        \cup UNION { {Choice("list", es) : es \in [1..n -> EntryValues]} :
                     n \in 1..MaxEntries }

\* _prompt_fix_selection applied to the findings of the review result, and
\* the sort of lines 1816-1822 applied to what it returns
PromptFixSelection ==
    /\ pc = "select"
    /\ \E answer \in AllChoices :
         LET sel == prompt_fix_selection(code_review_result[1].items, answer)
         IN  /\ choice' = Some(answer)
             /\ exception' = sel.error
             /\ items_to_fix' = sel.items
             /\ sorted_items' = sorted_by_severity(sel.items)
             /\ pc' = IF sel.error # "none" THEN "aborted" ELSE "selected"
    /\ UNCHANGED <<fix_iteration, fix_iteration_count, code_review_result,
                   review_output, dispatched, review_calls, fix_idx,
                   fix_attempt, fix_execution_logs>>
    /\ UNCHANGED <<fnVars, ideaVars, cfgVars, cmdVars, implementation_plan, task_idx,
                   execution_logs, generated_diffs, files, execVars, ctxVars>>

\* what the loop actions leave alone outside the loop's own variables
LoopFrame ==
    UNCHANGED <<fnVars, ideaVars, cfgVars, cmdVars, implementation_plan, task_idx,
                execution_logs, generated_diffs, execVars, ctxVars>>

\* lines 1752-1753 and 1863-1864
ReviewLoopEnter ==
    /\ pc = "stage4_done"
    /\ IF ~skip_review
       THEN /\ fix_iteration' = 0
            /\ pc' = "loop_head"
       ELSE /\ pc' = "done"
            /\ UNCHANGED fix_iteration
    /\ UNCHANGED <<fix_iteration_count, code_review_result, review_output,
                   choice, items_to_fix, dispatched, review_calls,
                   sorted_items, fix_idx, fix_attempt, fix_execution_logs>>
    /\ UNCHANGED <<files, exception>>
    /\ LoopFrame

\* the loop head without line 1756
LoopHead_count_unset ==
    /\ pc = "loop_head"
    /\ IF fix_iteration < max_fix_iterations
       THEN /\ fix_iteration' = fix_iteration + 1
            /\ pc' = "review"
       ELSE /\ pc' = "done"
            /\ UNCHANGED fix_iteration
    /\ UNCHANGED <<fix_iteration_count, code_review_result, review_output,
                   choice, items_to_fix, dispatched, review_calls,
                   sorted_items, fix_idx, fix_attempt, fix_execution_logs>>
    /\ UNCHANGED <<files, exception>>
    /\ LoopFrame

LoopHead_one_more ==
    /\ pc = "loop_head"
    /\ IF fix_iteration <= max_fix_iterations
       THEN /\ fix_iteration' = fix_iteration + 1
            /\ fix_iteration_count' = fix_iteration'
            /\ pc' = "review"
       ELSE /\ pc' = "done"
            /\ UNCHANGED <<fix_iteration, fix_iteration_count>>
    /\ UNCHANGED <<code_review_result, review_output, choice, items_to_fix,
                   dispatched, review_calls, sorted_items, fix_idx,
                   fix_attempt, fix_execution_logs>>
    /\ UNCHANGED <<files, exception>>
    /\ LoopFrame

\* lines 1754-1756: while fix_iteration < max_fix_iterations
LoopHead ==
    /\ pc = "loop_head"
    /\ IF fix_iteration < max_fix_iterations
       THEN /\ fix_iteration' = fix_iteration + 1
            /\ fix_iteration_count' = fix_iteration'
            /\ pc' = "review"
       ELSE /\ pc' = "done"
            /\ UNCHANGED <<fix_iteration, fix_iteration_count>>
    /\ UNCHANGED <<code_review_result, review_output, choice, items_to_fix,
                   dispatched, review_calls, sorted_items, fix_idx,
                   fix_attempt, fix_execution_logs>>
    /\ UNCHANGED <<files, exception>>
    /\ LoopFrame

\* the exception that leaves run_codex_code_review for an output
review_exception(kind) ==
    CASE kind = "raise" -> "RuntimeError"
      [] kind = "items_not_iterable" -> "TypeError"
      [] kind = "invalid_field" -> "ValidationError"
      [] OTHER -> "none"

\* run_codex_code_review, lines 1065-1219
RunCodexCodeReview ==
    /\ pc = "review"
    /\ review_calls' = review_calls + 1
    /\ \E out \in ReviewOutputs :
         /\ review_output' = out.kind
         /\ exception' = review_exception(out.kind)
         /\ pc' = IF exception' # "none" THEN "aborted" ELSE "reviewed"
         /\ CASE out.kind = "decode_error" ->
                     code_review_result' =
                         Some(CodeReviewResult(<<>>, FALSE, review_calls'))
              [] out.kind = "parsed" ->
                     code_review_result' =
                         Some(CodeReviewResult(out.items, out.requires_fixes,
                                               review_calls'))
              [] OTHER -> UNCHANGED code_review_result
    /\ UNCHANGED <<fix_iteration, fix_iteration_count, choice, items_to_fix,
                   dispatched, sorted_items, fix_idx, fix_attempt,
                   fix_execution_logs>>
    /\ UNCHANGED files
    /\ LoopFrame

\* lines 1816-1822: the sort, and the start of the loop over sorted_items
start_fixes(selected) ==
    /\ items_to_fix' = selected
    /\ dispatched' = <<>>
    /\ IF selected # <<>>
       THEN /\ sorted_items' = sorted_by_severity(selected)
            /\ fix_idx' = 1
            /\ fix_attempt' = 0
            /\ pc' = "fix_attempt"
       ELSE /\ pc' = "done"
            /\ UNCHANGED <<sorted_items, fix_idx, fix_attempt>>

\* the loop, were the fix stage entered whenever the result has items
SelectFixes_items_only ==
    /\ pc = "reviewed"
    /\ IF code_review_result = None
       THEN /\ pc' = "done"
            /\ UNCHANGED <<choice, items_to_fix, dispatched, sorted_items,
                           fix_idx, fix_attempt, exception>>
       ELSE LET result == code_review_result[1] IN
            IF result.items # <<>>
            THEN IF auto_fix
                 THEN /\ start_fixes(result.items)
                      /\ UNCHANGED <<choice, exception>>
                 ELSE \E answer \in LoopChoices :
                        LET sel == prompt_fix_selection(result.items, answer)
                        IN  /\ choice' = Some(answer)
                            /\ exception' = sel.error
                            /\ IF sel.error # "none"
                               THEN /\ pc' = "aborted"
                                    /\ UNCHANGED <<items_to_fix, dispatched,
                                                   sorted_items, fix_idx,
                                                   fix_attempt>>
                               ELSE start_fixes(sel.items)
            ELSE /\ pc' = "done"
                 /\ UNCHANGED <<choice, items_to_fix, dispatched, sorted_items,
                                fix_idx, fix_attempt, exception>>
    /\ UNCHANGED <<fix_iteration, fix_iteration_count, code_review_result,
                   review_output, review_calls, fix_execution_logs>>
    /\ UNCHANGED files
    /\ LoopFrame

\* lines 1772-1822 and 1854-1862: what the loop does with the review result
SelectFixes ==
    /\ pc = "reviewed"
    /\ IF code_review_result = None
       THEN /\ pc' = "done"
            /\ UNCHANGED <<choice, items_to_fix, dispatched, sorted_items,
                           fix_idx, fix_attempt, exception>>
       ELSE LET result == code_review_result[1] IN
            IF result.requires_fixes /\ result.items # <<>>
            THEN IF auto_fix
                 THEN /\ start_fixes(result.items)
                      /\ UNCHANGED <<choice, exception>>
                 ELSE \E answer \in LoopChoices :
                        LET sel == prompt_fix_selection(result.items, answer)
                        IN  /\ choice' = Some(answer)
                            /\ exception' = sel.error
                            /\ IF sel.error # "none"
                               THEN /\ pc' = "aborted"
                                    /\ UNCHANGED <<items_to_fix, dispatched,
                                                   sorted_items, fix_idx,
                                                   fix_attempt>>
                               ELSE start_fixes(sel.items)
            ELSE /\ pc' = "done"
                 /\ UNCHANGED <<choice, items_to_fix, dispatched, sorted_items,
                                fix_idx, fix_attempt, exception>>
    /\ UNCHANGED <<fix_iteration, fix_iteration_count, code_review_result,
                   review_output, review_calls, fix_execution_logs>>
    /\ UNCHANGED files
    /\ LoopFrame

\* the return of run_claude_fixer: the next item of the loop of lines
\* 1835-1841, or back to the head of the while loop (lines 1852-1853)
FixerReturn ==
    /\ fix_idx' = fix_idx + 1
    /\ fix_attempt' = 0
    /\ pc' = IF fix_idx + 1 <= Len(sorted_items) THEN "fix_attempt"
             ELSE "loop_head"

\* run_claude_fixer, lines 1322-1393: one pass of the attempt loop; the
\* first pass is the call of line 1840
RunClaudeFixerAttempt ==
    /\ pc = "fix_attempt"
    /\ LET review_item == sorted_items[fix_idx] IN
       /\ dispatched' = IF fix_attempt = 0 THEN Append(dispatched, review_item)
                        ELSE dispatched
       /\ agent_calls' = IF fix_attempt = 0 THEN 1 ELSE agent_calls + 1
       /\ \E out \in AgentResults, write_ok \in BOOLEAN :
            /\ exception' = IF out = "raise" THEN "RuntimeError" ELSE exception
            /\ IF out = "raise"
               THEN /\ pc' = "aborted"
                    /\ UNCHANGED <<files, fix_execution_logs, fix_idx,
                                   fix_attempt>>
               ELSE IF needs_retry(review_item.file_path, out, fix_attempt,
                                   FixMaxRetries)
               THEN /\ fix_attempt' = fix_attempt + 1
                    /\ pc' = "fix_attempt"
                    /\ UNCHANGED <<files, fix_execution_logs, fix_idx>>
               ELSE IF write_ok
               THEN /\ files' = [files EXCEPT ![review_item.file_path] = out]
                    /\ fix_execution_logs' = Append(fix_execution_logs,
                           ExecutionLog(review_item.item_id, TRUE,
                                        "Fix applied", ""))
                    /\ FixerReturn
               ELSE /\ UNCHANGED <<files, fix_execution_logs>>
                    /\ FixerReturn
            /\ code_content' = IF fix_attempt' = fix_attempt + 1 THEN Some(out)
                               ELSE None
    /\ UNCHANGED <<fix_iteration, fix_iteration_count, code_review_result,
                   review_output, choice, items_to_fix, review_calls,
                   sorted_items>>
    /\ UNCHANGED <<existing_code, exec_attempt, exec_effects>>
    /\ UNCHANGED <<fnVars, ideaVars, cfgVars, cmdVars, implementation_plan,
                   task_idx, execution_logs, generated_diffs, ctxVars>>

(***************************************************************************)
(* Specifications of the pipeline                                          *)
(***************************************************************************)
RunCommandPlan(n) == [i \in 1..n |-> Task(i, ".", "run_command")]

\* SpecCmd: execute_run_command called for each of a list of commands on a
\* CommandExecutor with any retry budget.
InitCmd ==
    /\ CtxDefaults
    /\ auto_run \in BOOLEAN
    /\ DEBUG = FALSE
    /\ skip_review = FALSE
    /\ max_fix_iterations = 1
    /\ auto_fix = FALSE
    /\ auto_select = FALSE
    /\ LoopIdle
    /\ auto_approve \in BOOLEAN
    /\ retries \in 0..MaxRetries
    /\ execution_counter = 0
    /\ log_directory = <<>>
    /\ RunIdle
    /\ pc = "stage4"
    /\ implementation_plan \in {RunCommandPlan(n) : n \in 1..MaxCalls}
    /\ task_idx = 1
    /\ execution_logs = <<>>
    /\ generated_diffs = [p \in Paths |-> <<>>]
    /\ files = [p \in Paths |-> Absent]
    /\ exception = "none"
    /\ IdeasChosen
    /\ FnIdle
    /\ ExecIdle

NextCmd ==
    \/ Stage4RunCommand
    \/ Confirm
    \/ CmdAttempt
    \/ CmdFinish
    \/ ExecuteRunCommandReturn
    \/ Stage4Advance
    \/ Stage4Done

SpecCmd == InitCmd /\ [][NextCmd]_vars

\* SpecExec: stage 4 of main over a plan.
TaskShapes ==
    { <<"a.py", "create_file">>, <<"a.py", "edit_file">>,
      <<"notes.md", "create_file">>, <<".", "run_command">>, <<".", "other">> }

PlansOf(n) ==
    { [i \in 1..n |-> Task(i, sh[i][1], sh[i][2])] : sh \in [1..n -> TaskShapes] }

InitExec ==
    /\ CtxDefaults
    /\ auto_run \in BOOLEAN
    /\ DEBUG \in BOOLEAN
    /\ skip_review = FALSE
    /\ max_fix_iterations = 1
    /\ auto_fix = FALSE
    /\ auto_select = FALSE
    /\ LoopIdle
    /\ auto_approve \in BOOLEAN
    /\ retries = MainRetries
    /\ execution_counter = 0
    /\ log_directory = <<>>
    /\ RunIdle
    /\ pc = "stage4"
    /\ implementation_plan \in UNION {PlansOf(n) : n \in 1..MaxPlan}
    /\ task_idx = 1
    /\ execution_logs = <<>>
    /\ generated_diffs = [p \in Paths |-> <<>>]
    /\ files = [p \in Paths |-> Absent]
    /\ exception = "none"
    /\ IdeasChosen
    /\ FnIdle
    /\ ExecIdle

NextExec ==
    \/ Stage4FileTask
    \/ Stage4RunCommand
    \/ Stage4OtherTask
    \/ Stage4Done
    \/ Stage4Advance
    \/ RunClaudeExecutorAttempt
    \/ Confirm
    \/ CmdAttempt
    \/ CmdFinish
    \/ ExecuteRunCommandReturn

SpecExec == InitExec /\ [][NextExec]_vars

\* SpecLoop: main from the end of stage 4 (a plan whose only task has no
\* branch in the task loop, so nothing was logged or written) to the end.
InitLoop ==
    /\ CtxDefaults
    /\ auto_run = FALSE
    /\ DEBUG = FALSE
    /\ skip_review \in BOOLEAN
    /\ max_fix_iterations \in -1..MaxFixIterations
    /\ auto_fix \in BOOLEAN
    /\ auto_select = FALSE
    /\ LoopIdle
    /\ auto_approve = FALSE
    /\ retries = MainRetries
    /\ execution_counter = 0
    /\ log_directory = <<>>
    /\ RunIdle
    /\ pc = "stage4_done"
    /\ implementation_plan = <<Task(1, ".", "other")>>
    /\ task_idx = 2
    /\ execution_logs = <<>>
    /\ generated_diffs = [p \in Paths |-> <<>>]
    /\ files = [p \in Paths |-> Absent]
    /\ exception = "none"
    /\ IdeasChosen
    /\ FnIdle
    /\ ExecIdle

NextLoop ==
    \/ ReviewLoopEnter
    \/ LoopHead
    \/ RunCodexCodeReview
    \/ SelectFixes
    \/ RunClaudeFixerAttempt

SpecLoop == InitLoop /\ [][NextLoop]_vars

\* SpecSelect: _prompt_fix_selection and the severity sort as functions of
\* the findings and of the answer typed at the prompt.
InitSelect ==
    /\ CtxDefaults
    /\ auto_run = FALSE
    /\ DEBUG = FALSE
    /\ skip_review = FALSE
    /\ max_fix_iterations = 1
    /\ auto_fix = FALSE
    /\ auto_select = FALSE
    /\ fix_iteration = 1
    /\ fix_iteration_count = 1
    /\ \E its \in ItemLists :
         code_review_result = Some(CodeReviewResult(its, TRUE, 1))
    /\ review_output = "parsed"
    /\ choice = None
    /\ items_to_fix = <<>>
    /\ dispatched = <<>>
    /\ review_calls = 1
    /\ sorted_items = <<>>
    /\ fix_idx = 1
    /\ fix_attempt = 0
    /\ fix_execution_logs = <<>>
    /\ auto_approve = FALSE
    /\ retries = MainRetries
    /\ execution_counter = 0
    /\ log_directory = <<>>
    /\ RunIdle
    /\ pc = "select"
    /\ implementation_plan = <<Task(1, ".", "other")>>
    /\ task_idx = 2
    /\ execution_logs = <<>>
    /\ generated_diffs = [p \in Paths |-> <<>>]
    /\ files = [p \in Paths |-> Absent]
    /\ exception = "none"
    /\ IdeasChosen
    /\ FnIdle
    /\ ExecIdle

NextSelect == PromptFixSelection

SpecSelect == InitSelect /\ [][NextSelect]_vars

\* SpecMain: main from the planning stage to its end.
InitMain ==
    /\ CtxDefaults
    /\ auto_run = FALSE
    /\ DEBUG = FALSE
    /\ skip_review \in BOOLEAN
    /\ max_fix_iterations \in 0..1
    /\ auto_fix = TRUE
    /\ auto_select = FALSE
    /\ LoopIdle
    /\ auto_approve \in BOOLEAN
    /\ retries = MainRetries
    /\ execution_counter = 0
    /\ log_directory = <<>>
    /\ RunIdle
    /\ pc = "stage3"
    /\ implementation_plan = <<>>
    /\ task_idx = 1
    /\ execution_logs = <<>>
    /\ generated_diffs = [p \in Paths |-> <<>>]
    /\ files = [p \in Paths |-> Absent]
    /\ exception = "none"
    /\ IdeasChosen
    /\ FnIdle
    /\ ExecIdle

NextMain ==
    \/ RunCodexPlanning
    \/ Stage3Done
    \/ Stage4RunCommand
    \/ Confirm
    \/ CmdAttempt
    \/ CmdFinish
    \/ ExecuteRunCommandReturn
    \/ Stage4FileTask
    \/ RunClaudeExecutorAttempt
    \/ Stage4OtherTask
    \/ Stage4Advance
    \/ Stage4Done
    \/ ReviewLoopEnter
    \/ LoopHead
    \/ RunCodexCodeReview
    \/ SelectFixes
    \/ RunClaudeFixerAttempt

SpecMain == InitMain /\ [][NextMain]_vars

\* main with every call of an agent returning: the attempt loops of
\* run_claude_executor and run_claude_fixer are sequential code, so an
\* attempt that can be made is made
SpecMainFair ==
    /\ SpecMain
    /\ WF_vars(RunClaudeExecutorAttempt)
    /\ WF_vars(RunClaudeFixerAttempt)

(***************************************************************************)
(* SpecPipeline: main from its first stage, for one configuration (review  *)
(* on, one fix iteration, automatic selection of the fixes, commands       *)
(* approved).                                                              *)
(***************************************************************************)
InitPipeline ==
    /\ CtxDefaults
    /\ auto_run = TRUE
    /\ DEBUG = FALSE
    /\ skip_review = FALSE
    /\ max_fix_iterations = 1
    /\ auto_fix = TRUE
    /\ auto_select = FALSE
    /\ LoopIdle
    /\ auto_approve = FALSE
    /\ retries = MainRetries
    /\ execution_counter = 0
    /\ log_directory = <<>>
    /\ RunIdle
    /\ pc = "stage1"
    /\ implementation_plan = <<>>
    /\ task_idx = 1
    /\ execution_logs = <<>>
    /\ generated_diffs = [p \in Paths |-> <<>>]
    /\ files = [p \in Paths |-> Absent]
    /\ exception = "none"
    /\ IdeasIdle
    /\ FnIdle
    /\ ExecIdle

NextPipeline ==
    \/ RunGeminiBrainstorm
    \/ RunCodexBrainstormReview
    \/ SelectApproach
    \/ RunCodexPlanning
    \/ Stage3Done
    \/ Stage4RunCommand
    \/ CmdAttempt
    \/ CmdFinish
    \/ ExecuteRunCommandReturn
    \/ Stage4FileTask
    \/ RunClaudeExecutorAttempt
    \/ Stage4OtherTask
    \/ Stage4Advance
    \/ Stage4Done
    \/ ReviewLoopEnter
    \/ LoopHead
    \/ RunCodexCodeReview
    \/ SelectFixes
    \/ RunClaudeFixerAttempt

SpecPipeline == InitPipeline /\ [][NextPipeline]_vars

\* SpecApproach: main from stage 1 to the end of planning, with or without
\* --auto-select
InitApproach ==
    /\ CtxDefaults
    /\ auto_run = TRUE
    /\ DEBUG = FALSE
    /\ skip_review = FALSE
    /\ max_fix_iterations = 1
    /\ auto_fix = TRUE
    /\ auto_select \in BOOLEAN
    /\ LoopIdle
    /\ auto_approve = FALSE
    /\ retries = MainRetries
    /\ execution_counter = 0
    /\ log_directory = <<>>
    /\ RunIdle
    /\ pc = "stage1"
    /\ implementation_plan = <<>>
    /\ task_idx = 1
    /\ execution_logs = <<>>
    /\ generated_diffs = [p \in Paths |-> <<>>]
    /\ files = [p \in Paths |-> Absent]
    /\ exception = "none"
    /\ IdeasIdle
    /\ FnIdle
    /\ ExecIdle

NextApproach ==
    \/ RunGeminiBrainstorm
    \/ RunCodexBrainstormReview
    \/ SelectApproach
    \/ RunCodexPlanning
    \/ Stage3Done

SpecApproach == InitApproach /\ [][NextApproach]_vars

(***************************************************************************)
(* SpecExtract: _extract_json_list called on any text                      *)
(***************************************************************************)
\* every part of the pipeline idle, a helper function about to be called
FnFrame ==
    /\ CtxDefaults
    /\ auto_run = FALSE
    /\ DEBUG = FALSE
    /\ skip_review = FALSE
    /\ max_fix_iterations = 1
    /\ auto_fix = FALSE
    /\ auto_select = FALSE
    /\ LoopIdle
    /\ auto_approve = FALSE
    /\ retries = MainRetries
    /\ execution_counter = 0
    /\ log_directory = <<>>
    /\ RunIdle
    /\ implementation_plan = <<>>
    /\ task_idx = 1
    /\ execution_logs = <<>>
    /\ generated_diffs = [p \in Paths |-> <<>>]
    /\ files = [p \in Paths |-> Absent]
    /\ exception = "none"
    /\ IdeasIdle
    /\ ExecIdle
    /\ output = None

InitExtract ==
    /\ FnFrame
    /\ pc = "extract"
    /\ input \in Texts

NextExtract == ExtractJsonList

SpecExtract == InitExtract /\ [][NextExtract]_vars

(***************************************************************************)
(* SpecPromise: check_promise_completion called with any promise on any    *)
(* output                                                                  *)
(***************************************************************************)
InitPromise ==
    /\ FnFrame
    /\ pc = "check_promise"
    /\ input \in [promise : CompletionPromises, output : Outputs]

NextPromise == CheckPromiseCompletion

SpecPromise == InitPromise /\ [][NextPromise]_vars

(***************************************************************************)
(* SpecDiff: _generate_diff called on any two contents                     *)
(***************************************************************************)
InitDiff ==
    /\ FnFrame
    /\ pc = "generate_diff"
    /\ input \in [old : FileContents, new : FileContents]

NextDiff == GenerateDiff

SpecDiff == InitDiff /\ [][NextDiff]_vars

(***************************************************************************)
(* SpecValidate: the item loops of run_codex_planning and                  *)
(* run_codex_code_review run on any list of items                          *)
(***************************************************************************)
\* an element of the reviewer's "items": one CodeReviewItem(...) accepts, or
\* one it rejects (a missing key, an unknown severity or review type, not an
\* object)
RawReviewItem(ok, path, sev) ==
    [valid |-> ok, file_path |-> path, severity |-> sev]

RawPlanItems ==
    {BadItem, PlanItem(".", "run_command"), PlanItem("a.py", "create_file")}
RawReviewItems ==
    {RawReviewItem(FALSE, "a.py", "bogus"), RawReviewItem(TRUE, "a.py", "high"),
     RawReviewItem(TRUE, "notes.md", "low")}

ListsOf(S) == UNION {[1..n -> S] : n \in 0..MaxRaw}

\* run_codex_code_review, lines 1179-1199: CodeReviewItem(...) for each
\* element, the failures skipped; the item_id is the one the reviewer gave,
\* here the position in its list
review_items_of(items_data) ==
    LET F[k \in 0..Len(items_data)] ==
            IF k = 0 THEN <<>>
            ELSE IF items_data[k].valid
                 THEN Append(F[k - 1],
                             ReviewItem(k, items_data[k].file_path,
                                        items_data[k].severity))
                 ELSE F[k - 1]
    IN  F[Len(items_data)]

\* run_codex_planning, lines 844-853, on the list of input
BuildTasks ==
    /\ pc = "build_tasks"
    /\ output = None
    /\ output' = Some(tasks_of(input))
    /\ pc' = "returned"
    /\ UNCHANGED <<input, ideaVars, cfgVars, cmdVars, implementation_plan,
                   task_idx, execution_logs, generated_diffs, files,
                   exception, execVars, loopVars, ctxVars>>

\* run_codex_code_review, lines 1179-1199, on the list of input
BuildReviewItems ==
    /\ pc = "build_items"
    /\ output = None
    /\ output' = Some(review_items_of(input))
    /\ pc' = "returned"
    /\ UNCHANGED <<input, ideaVars, cfgVars, cmdVars, implementation_plan,
                   task_idx, execution_logs, generated_diffs, files,
                   exception, execVars, loopVars, ctxVars>>

InitValidate ==
    /\ FnFrame
    /\ \/ pc = "build_tasks" /\ input \in ListsOf(RawPlanItems)
       \/ pc = "build_items" /\ input \in ListsOf(RawReviewItems)

NextValidate ==
    \/ BuildTasks
    \/ BuildReviewItems

SpecValidate == InitValidate /\ [][NextValidate]_vars

(***************************************************************************)
(* SpecTruncate: _truncate_stderr called on any stderr text                *)
(***************************************************************************)
\* the defaults of max_lines and max_chars
max_lines == 5
max_chars == 200

\* A stderr text is the sequence of the lengths of its lines; a line is
\* empty or made of characters that are not white space.  <<>> is the empty
\* string, <<0>> a lone line break.
LineLengths == {0, 1, 60, 200}
StderrTexts == UNION {[1..n -> LineLengths] : n \in 0..MaxStderrLines}

RECURSIVE SumOf(_)
SumOf(lengths) ==
    IF lengths = <<>> THEN 0 ELSE Head(lengths) + SumOf(Tail(lengths))

\* len("\n".join(lines))
joined_length(lines) ==
    IF lines = <<>> THEN 0 ELSE SumOf(lines) + Len(lines) - 1

\* stderr.strip().splitlines(): the empty lines at both ends are white space
RECURSIVE strip_lines(_)
strip_lines(lines) ==
    IF lines = <<>> THEN <<>>
    ELSE IF Head(lines) = 0 THEN strip_lines(Tail(lines))
    ELSE IF lines[Len(lines)] = 0
         THEN strip_lines(SubSeq(lines, 1, Len(lines) - 1))
    ELSE lines

\* the lines of the first n characters of "\n".join(lines): line k + 1 is
\* begun once the line break after line k is among them
lines_within(lines, n) ==
    IF lines = <<>> \/ n = 0 THEN 0
    ELSE 1 + Cardinality({k \in 1..(Len(lines) - 1) :
                             joined_length(SubSeq(lines, 1, k)) + 1 <= n})

\* what _truncate_stderr returns: the placeholder, or an excerpt with its
\* lines, its characters of stderr and whether "..." ends it
Excerpt(ph, n_lines, n_chars, dots) ==
    [placeholder |-> ph, lines |-> n_lines, chars |-> n_chars, marker |-> dots]

\* _truncate_stderr, lines 98-108
truncate_stderr(stderr) ==
    IF stderr = <<>> THEN Excerpt(TRUE, 0, 0, FALSE)
    ELSE LET all_lines == strip_lines(stderr)
             lines == IF Len(all_lines) > max_lines
                      THEN SubSeq(all_lines, 1, max_lines) ELSE all_lines
         IN  IF joined_length(lines) > max_chars
             THEN Excerpt(FALSE, lines_within(lines, max_chars), max_chars,
                          TRUE)
             ELSE Excerpt(FALSE, Len(lines), joined_length(lines), FALSE)

\* a call of _truncate_stderr on its own
TruncateStderr ==
    /\ pc = "truncate_stderr"
    /\ output = None
    /\ output' = Some(truncate_stderr(input))
    /\ pc' = "returned"
    /\ UNCHANGED <<input, ideaVars, cfgVars, cmdVars, implementation_plan,
                   task_idx, execution_logs, generated_diffs, files,
                   exception, execVars, loopVars, ctxVars>>

InitTruncate ==
    /\ FnFrame
    /\ pc = "truncate_stderr"
    /\ input \in StderrTexts

NextTruncate == TruncateStderr

SpecTruncate == InitTruncate /\ [][NextTruncate]_vars

(***************************************************************************)
(* SpecCtx: a newly created context driven by any sequence of the methods  *)
(* of the acceptance loop.                                                 *)
(***************************************************************************)
InitCtx ==
    /\ ralph_wiggum_feedback = None
    /\ ralph_wiggum_threshold = DefaultThreshold
    /\ review_attempt = 1
    /\ max_attempts \in 1..MaxMaxAttempts
    /\ review_notes = <<>>
    /\ iteration_history = <<>>
    /\ file_snapshots = <<>>
    /\ previous_outputs = <<>>
    /\ lastop = "init"
    /\ ret = "None"
    /\ PipeIdle

NextCtx ==
    \/ SubmitFeedback
    \/ IsAccepted
    \/ prepare_ralph_wiggum_retry
    \/ increment_attempt
    \/ add_note
    \/ AddHistoryEntry
    \/ save_iteration_snapshot
    \/ add_previous_output

SpecCtx == InitCtx /\ [][NextCtx]_vars

(***************************************************************************)
(* SpecAccept: is_ralph_wiggum_accepted as a function of the feedback and  *)
(* of the threshold.                                                       *)
(***************************************************************************)
InitAccept ==
    /\ ralph_wiggum_feedback \in {None} \cup {Some(fb) : fb \in RalphWiggumFeedback}
    /\ ralph_wiggum_threshold \in Thresholds
    /\ review_attempt = 1
    /\ max_attempts = DefaultMaxAttempts
    /\ review_notes = <<>>
    /\ iteration_history = <<>>
    /\ file_snapshots = <<>>
    /\ previous_outputs = <<>>
    /\ lastop = "init"
    /\ ret = "None"
    /\ PipeIdle

NextAccept == IsAccepted

SpecAccept == InitAccept /\ [][NextAccept]_vars

(***************************************************************************)
(* The claims                                                              *)
(***************************************************************************)
Max0(n) == IF n > 0 THEN n ELSE 0

\* C1: whatever the reviewer answers, whichever fixes are selected and
\* however they end, the code-review stage is invoked at most
\* max_fix_iterations times, and never with skip-review set or with
\* max_fix_iterations <= 0.
C1_ReviewPassesBounded ==
    /\ review_calls <= Max0(max_fix_iterations)
    /\ (skip_review \/ max_fix_iterations <= 0) => review_calls = 0

C1_Witness ==
    /\ pc = "done"
    /\ max_fix_iterations = 2
    /\ review_calls = 2
    /\ Len(fix_execution_logs) = 3

RecordsOf(step) ==
    {k \in DOMAIN execution_logs : execution_logs[k].step_id = step}

\* C2: when stage 4 has finished, the execution log holds exactly one record
\* for every task of the implementation plan, whatever its action type.
C2_OneRecordPerTask ==
    pc = "stage4_done" =>
        \A i \in DOMAIN implementation_plan :
            Cardinality(RecordsOf(implementation_plan[i].step_id)) = 1

\* C3: when the executor returns from a file task, either the file was
\* written, its diff stored and a success record appended, or a failure
\* record was appended and no file written: exactly one of the two.
C3_WrittenXorFailureRecord ==
    (pc = "task_returned" /\ CurrentTask.action_type \in FileActions) =>
        LET written == /\ exec_effects.wrote
                       /\ exec_effects.diff
                       /\ exec_effects.appended = <<TRUE>>
            failed == /\ exec_effects.appended = <<FALSE>>
                      /\ ~exec_effects.wrote
        IN  (written \/ failed) /\ ~(written /\ failed)

\* C4: an approved command is attempted until the first exit code 0 or until
\* retries + 1 attempts were made: no attempt follows a success, a run whose
\* last attempt is nonzero has exactly retries + 1 attempts and status
\* failed, a run whose attempt k is the first to exit 0 has exactly k
\* attempts and status success.
C4_AttemptsUntilSuccessOrBudget ==
    /\ \A k \in 1..(Len(logs) - 1) : logs[k].exit_code # 0
    /\ Len(logs) <= retries + 1
    /\ (pc = "cmd_returned" /\ confirmed # "denied") =>
           LET n == Len(logs)
               s == log_directory[execution_counter]
           IN  /\ n >= 1
               /\ s.total_attempts = n
               /\ \A k \in 1..n : logs[k].attempt = k
               /\ IF logs[n].exit_code = 0
                  THEN s.final_status = "success" /\ run_ret[1].success
                  ELSE /\ n = retries + 1
                       /\ s.final_status = "failed"
                       /\ ~run_ret[1].success

C4_Witness ==
    /\ pc = "cmd_returned"
    /\ retries = 1
    /\ Len(logs) = 2
    /\ logs[1].exit_code = 1
    /\ logs[2].exit_code = 0
    /\ final_status = "success"

InCall == pc \in {"confirm", "cmd_attempt", "cmd_finish"}

\* C5: every call of run persists exactly one summary record (total
\* attempts, final status, final exit code, the attempt list), and it is
\* persisted when control returns to the caller.
C5_OneSummaryBeforeReturn ==
    /\ InCall =>
           /\ log_writes = 0
           /\ DOMAIN log_directory = 1..(execution_counter - 1)
    /\ pc = "cmd_returned" =>
           /\ log_writes = 1
           /\ DOMAIN log_directory = 1..execution_counter
           /\ LET s == log_directory[execution_counter]
                  n == Len(logs)
              IN  /\ s.total_attempts = n
                  /\ s.attempts = logs
                  /\ s.final_exit_code =
                         IF n = 0 THEN None ELSE Some(logs[n].exit_code)
                  /\ s.final_status =
                         IF confirmed = "denied" THEN "skipped"
                         ELSE IF run_ret[1].success THEN "success"
                         ELSE "failed"

C5_Witness ==
    /\ pc = "cmd_returned"
    /\ confirmed = "denied"
    /\ execution_counter = 2
    /\ log_directory[1].final_status = "failed"
    /\ log_directory[2].final_status = "skipped"

LastRecord == execution_logs[Len(execution_logs)]

\* C6: a declined confirmation ends the command as skipped, with zero
\* attempts and no exit code, the command is never executed, and the records
\* of the run keep it apart from a failed command.
C6_SkippedDistinctFromFailed ==
    (pc = "task_returned" /\ confirmed = "denied") =>
        LET s == log_directory[execution_counter] IN
        /\ s.final_status = "skipped"
        /\ s.total_attempts = 0
        /\ s.final_exit_code = None
        /\ logs = <<>>
        /\ ~(LastRecord.success = FALSE /\ LastRecord.message = "Command failed")

Approved == auto_approve \/ auto_run

\* C7: a command is attempted only if confirmation was granted or
\* auto-approval is set; with auto-approval set (auto_approve, or auto_run)
\* the confirmation is never asked and the command always runs.
C7_AttemptOnlyIfApproved ==
    /\ Len(logs) > 0 => (auto_approve \/ confirmed = "granted")
    /\ Approved =>
           /\ confirmed = "unasked"
           /\ pc # "confirm"
           /\ pc \in {"cmd_finish", "cmd_returned"} => Len(logs) >= 1

C7_Witness ==
    /\ auto_run
    /\ pc = "cmd_returned"
    /\ execution_counter = 1
    /\ confirmed = "unasked"
    /\ Len(logs) = 2

\* C8: is_ralph_wiggum_accepted is true iff feedback is present and its
\* decision is accepted or its score is at least the threshold: rejected
\* with 0.95 at 0.8 is accepted, needs_revision with 0.5 at 0.8 is not, no
\* feedback is not.
C8_AcceptedIffDecisionOrScore ==
    lastop = "is_ralph_wiggum_accepted" =>
        /\ (ret = "True") <=>
               (/\ ralph_wiggum_feedback # None
                /\ \/ ralph_wiggum_feedback[1].decision = "accepted"
                   \/ ralph_wiggum_feedback[1].confidence_score
                          >= ralph_wiggum_threshold)
        /\ ret \in {"True", "False"}
        /\ (/\ ralph_wiggum_feedback =
                  Some([decision |-> "rejected", confidence_score |-> 95])
            /\ ralph_wiggum_threshold = 80) => ret = "True"
        /\ (/\ ralph_wiggum_feedback =
                  Some([decision |-> "needs_revision", confidence_score |-> 50])
            /\ ralph_wiggum_threshold = 80) => ret = "False"
        /\ ralph_wiggum_feedback = None => ret = "False"

C8_Witness ==
    /\ lastop = "is_ralph_wiggum_accepted"
    /\ ralph_wiggum_feedback =
           Some([decision |-> "rejected", confidence_score |-> 95])
    /\ ralph_wiggum_threshold = 80
    /\ ret = "True"

\* C9: prepare_ralph_wiggum_retry at review_attempt = max_attempts returns
\* false and changes nothing: attempt, feedback, history, notes, snapshots,
\* previous outputs.
C9_RetryAtMaxIsNoOp ==
    [][(lastop' = "prepare_ralph_wiggum_retry" /\ review_attempt = max_attempts)
           => (ret' = "False" /\ UNCHANGED ctxState)]_vars

C9_Witness ==
    /\ lastop = "prepare_ralph_wiggum_retry"
    /\ ret = "False"
    /\ review_attempt = max_attempts
    /\ max_attempts = 2
    /\ ralph_wiggum_feedback # None
    /\ Len(iteration_history) = 2
    /\ Len(review_notes) = 1

\* C10: prepare_ralph_wiggum_retry at review_attempt < max_attempts returns
\* true, adds exactly one to review_attempt, clears the feedback, and leaves
\* history, notes, snapshots, previous outputs, max_attempts and the
\* threshold as they were.
C10_RetryBelowMaxFrame ==
    [][(lastop' = "prepare_ralph_wiggum_retry" /\ review_attempt < max_attempts)
           => /\ ret' = "True"
              /\ review_attempt' = review_attempt + 1
              /\ ralph_wiggum_feedback' = None
              /\ UNCHANGED <<iteration_history, review_notes, file_snapshots,
                             previous_outputs, max_attempts,
                             ralph_wiggum_threshold>>]_vars

C10_Witness ==
    /\ lastop = "prepare_ralph_wiggum_retry"
    /\ ret = "True"
    /\ review_attempt = 2
    /\ ralph_wiggum_feedback = None
    /\ Len(iteration_history) = 1
    /\ iteration_history[1].action = "feedback_submitted"
    /\ Len(review_notes) = 1
    /\ Len(file_snapshots) = 1
    /\ Len(previous_outputs) = 1

\* C11: in every state reachable from a newly created context through the
\* methods of the context, 1 <= review_attempt <= max_attempts.
C11_AttemptWithinBounds ==
    /\ 1 <= review_attempt
    /\ review_attempt <= max_attempts

C11_Witness ==
    /\ lastop = "increment_attempt"
    /\ ret = "False"
    /\ max_attempts = 3
    /\ review_attempt = max_attempts

\* C12: ACCEPTED is terminal: once the feedback held by the context
\* satisfies the acceptance predicate, a retry preparation neither
\* increments the attempt counter nor clears the feedback.
C12_AcceptedIsTerminal ==
    [][(/\ lastop' = "prepare_ralph_wiggum_retry"
        /\ is_ralph_wiggum_accepted(ralph_wiggum_feedback,
                                    ralph_wiggum_threshold))
           => UNCHANGED <<review_attempt, ralph_wiggum_feedback>>]_vars

\* C13: when the reviewer's output cannot be parsed into a review object (no
\* JSON object in it, or the brace span does not decode), the review stage
\* returns normally and leaves as review result an empty result: no items,
\* requires_fixes false.
C13_ParseFailureGivesEmptyResult ==
    [][(pc = "review" /\ review_output' \in {"no_json", "decode_error"})
           => /\ pc' = "reviewed"
              /\ code_review_result' # None
              /\ code_review_result'[1].items = <<>>
              /\ code_review_result'[1].requires_fixes = FALSE]_vars

\* C14: after each invocation of the review stage the review result is the
\* one that invocation produced, and the findings being fixed are never
\* those of a result left from an earlier iteration.
C14_ReviewResultIsFresh ==
    pc \in {"reviewed", "fix_attempt"} =>
        /\ code_review_result # None
        /\ code_review_result[1].produced_by = review_calls

FindingsEmitted == code_review_result[1].items
Answer == choice[1]
InRange(entry) == entry.val \in 1..Len(FindingsEmitted)
AllInts(entries) == \A k \in DOMAIN entries : entries[k].kind = "int"
Severe(it) == it.severity \in {"critical", "high"}

\* C15: fix selection returns all findings for 'a', none for 'n', for 'c'
\* exactly the critical and high findings in their original order, and for a
\* list of indices the findings at those 1-based positions; findings of
\* severities [low, critical, high] under 'c', then sorted, give exactly
\* [critical, high].
C15_SelectionModes ==
    pc = "selected" =>
        /\ Answer.mode = "a" => items_to_fix = FindingsEmitted
        /\ Answer.mode = "n" => items_to_fix = <<>>
        /\ Answer.mode = "c" =>
               /\ \A k \in DOMAIN items_to_fix :
                      /\ Severe(items_to_fix[k])
                      /\ items_to_fix[k] = FindingsEmitted[items_to_fix[k].item_id]
                      /\ k > 1 => items_to_fix[k - 1].item_id
                                      < items_to_fix[k].item_id
               /\ Len(items_to_fix) =
                      Cardinality({i \in DOMAIN FindingsEmitted :
                                       Severe(FindingsEmitted[i])})
        /\ (/\ Answer.mode = "list"
            /\ AllInts(Answer.entries)
            /\ \A k \in DOMAIN Answer.entries : InRange(Answer.entries[k])) =>
               /\ Len(items_to_fix) = Len(Answer.entries)
               /\ \A k \in DOMAIN items_to_fix :
                      items_to_fix[k] = FindingsEmitted[Answer.entries[k].val]
        /\ (/\ Answer.mode = "c"
            /\ Len(FindingsEmitted) = 3
            /\ FindingsEmitted[1].severity = "low"
            /\ FindingsEmitted[2].severity = "critical"
            /\ FindingsEmitted[3].severity = "high") =>
               sorted_items = <<FindingsEmitted[2], FindingsEmitted[3]>>

C15_Witness ==
    /\ pc = "selected"
    /\ Answer.mode = "c"
    /\ Len(FindingsEmitted) = 3
    /\ FindingsEmitted[1].severity = "low"
    /\ FindingsEmitted[2].severity = "high"
    /\ FindingsEmitted[3].severity = "critical"
    /\ Len(items_to_fix) = 2
    /\ sorted_items[1].item_id = 3

\* C16: an answer that is not a valid selection (text that is no number, an
\* empty entry, valid and invalid entries mixed, an index that is zero,
\* negative or past the end) never raises: no finding is selected, or only
\* those at the indices in range.
C16_InvalidSelectionDegrades ==
    (/\ choice # None
     /\ Answer.mode = "list"
     /\ \/ ~AllInts(Answer.entries)
        \/ \E k \in DOMAIN Answer.entries : ~InRange(Answer.entries[k])) =>
        /\ exception = "none"
        /\ pc = "selected"
        /\ IF ~AllInts(Answer.entries) THEN items_to_fix = <<>>
           ELSE LET ok == SelectSeq(Answer.entries, InRange)
                IN  /\ Len(items_to_fix) = Len(ok)
                    /\ \A k \in DOMAIN ok :
                           items_to_fix[k] = FindingsEmitted[ok[k].val]

C16_Witness ==
    /\ pc = "selected"
    /\ exception = "none"
    /\ Len(FindingsEmitted) = 2
    /\ Answer = Choice("list", <<Entry(2), EmptyEntry>>)
    /\ items_to_fix = <<>>

Rank(it) == severity_index(it.severity)
EmissionIndex(it) ==
    CHOOSE i \in DOMAIN FindingsEmitted : FindingsEmitted[i] = it
Bijections(n) ==
    {f \in [1..n -> 1..n] : \A i, j \in 1..n : i # j => f[i] # f[j]}

\* C17 as claimed: the findings of a fix iteration are dispatched in
\* non-decreasing severity rank (critical, high, medium, low, info), and
\* findings of equal severity in the order the reviewer emitted them.
C17_DispatchInEmissionOrder ==
    \A k, l \in DOMAIN dispatched :
        k < l =>
            /\ Rank(dispatched[k]) <= Rank(dispatched[l])
            /\ Rank(dispatched[k]) = Rank(dispatched[l]) =>
                   EmissionIndex(dispatched[k]) <= EmissionIndex(dispatched[l])

\* C17 as amended: the findings of a fix iteration are dispatched in
\* non-decreasing severity rank, and findings of equal severity in the order
\* in which they were selected (the emission order under 'a', 'c' and
\* auto-fix, the order of the typed indices under an index list).
C17_DispatchInSelectionOrder ==
    \E f \in Bijections(Len(items_to_fix)) :
        /\ Len(dispatched) <= Len(items_to_fix)
        /\ \A k \in DOMAIN dispatched : dispatched[k] = items_to_fix[f[k]]
        /\ \A k, l \in DOMAIN items_to_fix :
               k < l =>
                   /\ Rank(items_to_fix[f[k]]) <= Rank(items_to_fix[f[l]])
                   /\ Rank(items_to_fix[f[k]]) = Rank(items_to_fix[f[l]]) =>
                          f[k] < f[l]

C17_Witness ==
    /\ pc = "loop_head"
    /\ choice = Some(Choice("list", <<Entry(2), Entry(1)>>))
    /\ Len(dispatched) = 2
    /\ dispatched[1].severity = "high"
    /\ dispatched[1].item_id = 2
    /\ dispatched[2].severity = "high"
    /\ dispatched[2].item_id = 1

\* C18: within a fix iteration every selected finding is dispatched to the
\* fix stage, whatever became of the fixes dispatched before it (syntax
\* retries exhausted, file write error, agent failure).
C18_EverySelectedFindingDispatched ==
    pc # "fix_attempt" => Len(dispatched) = Len(items_to_fix)

\* C19: whatever text the agent returns, the planning stage and the review
\* stage return normally: a failure to parse or validate the output (text
\* that is not JSON, a JSON value of the wrong shape, a field of the wrong
\* type, an invalid enum value) never leaves the stage as an exception.
C19_NoParseErrorEscapes ==
    exception \notin {"TypeError", "ValidationError", "ValueError"}

CommandFailed(id) ==
    /\ id \in DOMAIN log_directory
    /\ log_directory[id].final_status = "failed"
CommandTasks ==
    {i \in DOMAIN implementation_plan :
         implementation_plan[i].action_type = "run_command"}
AfterStage4 ==
    pc \in {"stage4_done", "loop_head", "review", "reviewed", "fix_attempt",
            "done"}

\* C20: a run-command task that ends failed (its attempts exhausted by
\* nonzero exits or spawn exceptions) does not halt main: control returns to
\* the task loop without an exception, the loop takes up the next task, all
\* commands of the plan have run when stage 4 is over, and the review stage
\* runs afterwards.
C20_FailedCommandDoesNotHalt ==
    /\ [][(pc = "cmd_returned" /\ CommandFailed(execution_counter))
              => /\ pc' = "task_returned"
                 /\ exception' = "none"
                 /\ Len(execution_logs') = Len(execution_logs) + 1]_vars
    /\ [][pc = "task_returned"
              => (pc' = "stage4" /\ task_idx' = task_idx + 1)]_vars
    /\ [](AfterStage4 =>
              /\ task_idx = Len(implementation_plan) + 1
              /\ Cardinality(DOMAIN log_directory) = Cardinality(CommandTasks))
    /\ []((pc = "done" /\ ~skip_review /\ max_fix_iterations >= 1)
              => review_calls >= 1)

C20_Witness ==
    /\ pc = "done"
    /\ review_calls = 1
    /\ Len(implementation_plan) = 2
    /\ CommandFailed(1)
    /\ execution_logs[1].success = FALSE
    /\ Len(execution_logs) = 2
    /\ execution_logs[2].success = TRUE
    /\ execution_logs[2].message = "file written"

(***************************************************************************)
(* C21                                                                     *)
(***************************************************************************)
\* the stage a position of main belongs to; 6 is the end of main
StageRank(p) ==
    CASE p = "stage1" -> 1
      [] p \in {"stage2", "select_approach"} -> 2
      [] p \in {"stage3", "planned"} -> 3
      [] p \in {"stage4", "confirm", "cmd_attempt", "cmd_finish",
                "cmd_returned", "exec_attempt", "task_returned",
                "stage4_done"} -> 4
      [] p \in {"loop_head", "review", "reviewed", "fix_attempt"} -> 5
      [] OTHER -> 6

\* the call made for the current task has returned, its retries included
TaskCompleted ==
    CASE CurrentTask.action_type = "run_command" ->
             /\ run_ret # None
             /\ \/ run_ret[1].success
                \/ confirmed = "denied"
                \/ Len(logs) = max_attempts_of(retries)
      [] CurrentTask.action_type \in FileActions -> agent_calls >= 1
      [] OTHER -> TRUE

\* C21: the stages start in the order brainstorm, brainstorm review, plan,
\* execute, review/fix, none skipped and none re-entered; the tasks of the
\* plan are taken one by one in plan order, the next only after the call for
\* the previous one has returned with its retries done; in each iteration
\* the review precedes the fixes, and no review starts while a fix is in
\* progress.
C21_StagesInOrderOneAtATime ==
    /\ [][StageRank(pc') \in {StageRank(pc), StageRank(pc) + 1, 6}]_vars
    /\ [][task_idx' # task_idx =>
            /\ pc = "task_returned"
            /\ task_idx' = task_idx + 1
            /\ TaskCompleted]_vars
    /\ [](pc \in {"review", "reviewed"} =>
            /\ review_calls \in {fix_iteration - 1, fix_iteration}
            /\ fix_attempt = 0
            /\ fix_idx > Len(sorted_items))
    /\ [](pc = "fix_attempt" =>
            /\ review_calls = fix_iteration
            /\ fix_idx <= Len(sorted_items))
    /\ [](StageRank(pc) \in 4..5 =>
            /\ brainstorming_ideas # None
            /\ refined_brainstorming # None
            /\ selected_approach # None
            /\ implementation_plan # <<>>)
    /\ [](StageRank(pc) = 5 => task_idx = Len(implementation_plan) + 1)

\* a run that retried a command, then ran a second task, a review and the
\* fixes of two findings
C21_Witness ==
    /\ pc = "loop_head"
    /\ fix_iteration = 1
    /\ review_calls = 1
    /\ Len(dispatched) = 2
    /\ Len(implementation_plan) = 2
    /\ implementation_plan[1].action_type = "run_command"
    /\ execution_counter = 1
    /\ log_directory[1].total_attempts = 2

(***************************************************************************)
(* C22                                                                     *)
(***************************************************************************)
\* C22: when planning yields an empty plan the run exits with a non-zero
\* status, and no task, review or fix has been executed.
C22_EmptyPlanExitsNonZero ==
    pc = "no_plan" =>
        /\ exit_status # 0
        /\ execution_logs = <<>>
        /\ execution_counter = 0
        /\ review_calls = 0
        /\ dispatched = <<>>

(***************************************************************************)
(* C23, C24                                                                *)
(***************************************************************************)
\* position i of the text starts a well-formed array of objects
ValidCandidateAt(text, i) ==
    /\ i \in DOMAIN text
    /\ text[i] = "["
    /\ raw_decode(text, i).ok
    /\ is_list_of_dicts(raw_decode(text, i).val)

CandidateStarts(text) == {i \in DOMAIN text : ValidCandidateAt(text, i)}

Last(S) == CHOOSE i \in S : \A j \in S : j <= i

\* C23: for a text that holds no well-formed array of objects, the text
\* being a JSON scalar, a JSON object or an array of scalars included, the
\* extractor returns the empty list.
C23_NoArrayOfObjectsGivesEmptyList ==
    (pc = "returned" /\ CandidateStarts(input) = {}) =>
        output = Some(JsonList(<<>>))

\* C24 as stated: for a text that is not itself valid JSON and holds several
\* valid candidates, the extractor returns the candidate that starts last,
\* candidates nested in an earlier decoded value included.
C24_LastCandidateNestedIncluded ==
    (/\ pc = "returned"
     /\ ~json_loads(input).ok
     /\ Cardinality(CandidateStarts(input)) >= 2) =>
        output = Some(raw_decode(input, Last(CandidateStarts(input))).val)

\* position i lies inside a value decoded from an earlier bracket
InsideDecoded(text, i) ==
    \E j \in 1..(i - 1) :
        /\ text[j] = "["
        /\ raw_decode(text, j).ok
        /\ raw_decode(text, j).end > i

OuterCandidateStarts(text) ==
    {i \in CandidateStarts(text) : ~InsideDecoded(text, i)}

\* C24 amended: for a text that is not itself valid JSON and holds several
\* valid candidates outside every earlier decoded value, the extractor
\* returns the one of them that starts last; a candidate nested in an
\* earlier decoded value is never returned in its place.
C24_LastOuterCandidate ==
    (/\ pc = "returned"
     /\ ~json_loads(input).ok
     /\ Cardinality(OuterCandidateStarts(input)) >= 2) =>
        output = Some(raw_decode(input, Last(OuterCandidateStarts(input))).val)

\* two outer candidates, a malformed one between them, and the later one
\* returned
C24_Witness ==
    /\ pc = "returned"
    /\ input = <<"[", "]", "[", "x", "[", "o", "]">>
    /\ output = Some(JsonList(<<JsonObject("o")>>))

(***************************************************************************)
(* C25                                                                     *)
(***************************************************************************)
\* a marker region: an opening tag and the nearest closing tag after it
MarkerRegions(out) ==
    {r \in (DOMAIN out) \X (DOMAIN out) :
        /\ out[r[1]] = OpenTag
        /\ out[r[2]] = CloseTag
        /\ r[1] < r[2]
        /\ \A k \in (r[1] + 1)..(r[2] - 1) : out[k] # CloseTag}

Interior(out, r) == SubSeq(out, r[1] + 1, r[2] - 1)

\* the string without the blanks and newlines at its two ends
Trimmed(str) ==
    LET inner == {k \in DOMAIN str : ~IsSpace(str[k])} IN
    IF inner = {} THEN <<>>
    ELSE SubSeq(str, CHOOSE k \in inner : \A m \in inner : k <= m,
                     CHOOSE k \in inner : \A m \in inner : m <= k)

\* a completion string is configured: the field is set, and not to ""
Configured(promise) == promise # None /\ promise[1] # <<>>

\* C25 as stated: the result is true iff a completion string is configured,
\* the output holds a marker region, and the trimmed interior of a region
\* equals the configured string exactly.
C25_TrueIffSomeRegionMatches ==
    pc = "returned" =>
        (output = Some(TRUE) <=>
            /\ Configured(input.promise)
            /\ \E r \in MarkerRegions(input.output) :
                   Trimmed(Interior(input.output, r)) = input.promise[1])

FirstRegion(out) ==
    CHOOSE r \in MarkerRegions(out) :
        \A q \in MarkerRegions(out) : r[1] <= q[1]

\* C25 amended: the result is true iff a completion string is configured,
\* the output holds a marker region, and the trimmed interior of the first
\* region of the output equals the configured string exactly.
C25_TrueIffFirstRegionMatches ==
    pc = "returned" =>
        (output = Some(TRUE) <=>
            /\ Configured(input.promise)
            /\ MarkerRegions(input.output) # {}
            /\ Trimmed(Interior(input.output, FirstRegion(input.output)))
                   = input.promise[1])

\* a region whose interior has blanks at both ends, matched after trimming
C25_Witness ==
    /\ pc = "returned"
    /\ input.promise = Some(<<"D">>)
    /\ input.output = <<OpenTag, " ", "D", "nl", CloseTag>>
    /\ output = Some(TRUE)

(***************************************************************************)
(* C26                                                                     *)
(***************************************************************************)
\* the positions of the diff text where a line starts
LineStarts(text) ==
    {k \in DOMAIN text : k = 1 \/ text[k - 1] = "nl"}

\* the line begins with the character + or -
StartsWithSign(text, k) == text[k] \in {"+", "-", "+++", "---"}

\* C26: the generated diff is the empty string iff the old and the new
\* content are equal, and a diff of two different contents has at least
\* one line that begins with '+' or '-'.
C26_DiffEmptyIffEqual ==
    pc = "returned" =>
        /\ output = Some(<<>>) <=> input.old = input.new
        /\ input.old # input.new =>
               \E k \in LineStarts(output[1]) : StartsWithSign(output[1], k)

\* two contents that differ only in the final newline
C26_Witness ==
    /\ pc = "returned"
    /\ input.old = <<"a">>
    /\ input.new = <<"a", "nl">>
    /\ output = Some(<<"---", "+++", "@@", "-", "a", "+", "a", "nl">>)

(***************************************************************************)
(* C27                                                                     *)
(***************************************************************************)
\* C27: a submission makes the submitted feedback the current one, appends
\* one feedback_submitted entry with its decision and the current attempt
\* number to iteration_history, and leaves review_attempt alone; no call of
\* the acceptance loop removes or changes an entry that is in the history.
C27_SubmitAppendsOneEntry ==
    /\ [][lastop' = "submit_ralph_wiggum_feedback" =>
            /\ ralph_wiggum_feedback' # None
            /\ iteration_history' =
                   Append(iteration_history,
                          [action |-> "feedback_submitted",
                           decision |-> ralph_wiggum_feedback'[1].decision,
                           attempt |-> review_attempt])
            /\ review_attempt' = review_attempt]_vars
    /\ [][/\ Len(iteration_history') >= Len(iteration_history)
          /\ SubSeq(iteration_history', 1, Len(iteration_history))
                 = iteration_history]_vars

\* a second submission, after a retry, that replaced a different feedback
C27_Witness ==
    /\ lastop = "submit_ralph_wiggum_feedback"
    /\ Len(iteration_history) = 2
    /\ iteration_history[1].action = "feedback_submitted"
    /\ iteration_history[1].attempt = 1
    /\ iteration_history[2].action = "feedback_submitted"
    /\ iteration_history[2].attempt = 2
    /\ iteration_history[1].decision # iteration_history[2].decision

(***************************************************************************)
(* C28                                                                     *)
(***************************************************************************)
\* the retry budget of the call in progress
RetryBudget == IF pc = "fix_attempt" THEN FixMaxRetries ELSE ExecMaxRetries

\* the file the call in progress is for
TargetPath ==
    IF pc = "fix_attempt" THEN sorted_items[fix_idx].file_path
    ELSE CurrentTask.file_path

\* the step ends the call in progress: the executor returns, or the fixer
\* leaves its attempt loop or moves to the next finding
CallEnds ==
    IF pc = "fix_attempt" THEN pc' # "fix_attempt" \/ fix_idx' # fix_idx
    ELSE pc' # "exec_attempt"

\* C28: for one task or one finding the agent is invoked at most N + 1
\* times (N = 3 for the executor, 2 for the fixer); an invocation after the
\* first is made only when the content of the attempt before, for a .py
\* file, did not parse; a file that is not a .py file gets exactly one
\* invocation; and the call for the task or finding ends (the reviews of
\* ParsedReviews hold one or two findings).
C28_BoundedSelfHealing ==
    /\ FixMaxRetries < ExecMaxRetries
    /\ [][(pc = "exec_attempt" \/ pc = "fix_attempt") =>
            /\ agent_calls' \in 1..(RetryBudget + 1)
            /\ agent_calls' > 1 =>
                   /\ EndsWithPy(TargetPath)
                   /\ code_content # None
                   /\ ~SyntaxOk(code_content[1])
            /\ ~EndsWithPy(TargetPath) =>
                   /\ agent_calls' = 1
                   /\ CallEnds]_vars
    /\ [](pc = "exec_attempt" => (code_content # None <=> agent_calls >= 1))
    /\ [](pc = "fix_attempt" => (code_content # None <=> fix_attempt >= 1))
    /\ [](pc = "exec_attempt" => <>(pc # "exec_attempt"))
    /\ [](pc = "fix_attempt" /\ fix_idx = 1 =>
              <>(pc # "fix_attempt" \/ fix_idx # 1))
    /\ [](pc = "fix_attempt" /\ fix_idx = 2 =>
              <>(pc # "fix_attempt" \/ fix_idx # 2))

\* a finding on a .py file fixed at the last attempt of the budget, after
\* two contents that did not parse
C28_Witness ==
    /\ pc = "loop_head"
    /\ agent_calls = FixMaxRetries + 1
    /\ dispatched # <<>>
    /\ EndsWithPy(dispatched[Len(dispatched)].file_path)
    /\ fix_execution_logs # <<>>

(***************************************************************************)
(* C29                                                                     *)
(***************************************************************************)
\* the step appends exactly one record to execution_logs, a failure for the
\* current task
AppendsOneFailure ==
    /\ Len(execution_logs') = Len(execution_logs) + 1
    /\ SubSeq(execution_logs', 1, Len(execution_logs)) = execution_logs
    /\ execution_logs'[Len(execution_logs')].step_id = CurrentTask.step_id
    /\ ~execution_logs'[Len(execution_logs')].success

\* C29: an executor attempt whose extracted content looks like stream JSON
\* ends the call at once, at every attempt number: one failure record is
\* appended, no file is written, no diff is stored, and until main moves to
\* the next task the agent is not invoked again.
C29_StreamJsonAborts ==
    /\ [][(pc = "exec_attempt" /\ code_content' # None
              /\ IsStreamJson(code_content'[1])) =>
            /\ pc' = "task_returned"
            /\ AppendsOneFailure
            /\ files' = files
            /\ generated_diffs' = generated_diffs
            /\ ~exec_effects'.wrote /\ ~exec_effects'.diff]_vars
    /\ [][pc = "task_returned" =>
            /\ agent_calls' = agent_calls
            /\ task_idx' = task_idx + 1]_vars

\* a stream JSON payload at the second attempt, with two attempts of the
\* budget left: the call has returned with one failure record
C29_Witness ==
    /\ pc = "task_returned"
    /\ code_content # None
    /\ IsStreamJson(code_content[1])
    /\ exec_attempt = 1
    /\ agent_calls = 2
    /\ exec_attempt < ExecMaxRetries
    /\ exec_effects.appended = <<FALSE>>
    /\ files[CurrentTask.file_path] = Absent

(***************************************************************************)
(* C30                                                                     *)
(***************************************************************************)
\* C30: an executor attempt whose extracted content is empty ends the call
\* at once with one failure record and writes no file, whether DEBUG is set
\* or not.
C30_EmptyContentAborts ==
    [][(pc = "exec_attempt" /\ code_content' = Some("")) =>
            /\ pc' = "task_returned"
            /\ AppendsOneFailure
            /\ files' = files
            /\ ~exec_effects'.wrote]_vars

(***************************************************************************)
(* C31                                                                     *)
(***************************************************************************)
\* the step is the last attempt of the executor's budget for a .py file and
\* its content, like that of every attempt before it, does not parse
LastAttemptFailsSyntax ==
    /\ pc = "exec_attempt"
    /\ EndsWithPy(CurrentTask.file_path)
    /\ exec_attempt = ExecMaxRetries
    /\ agent_calls = ExecMaxRetries
    /\ code_content' # None
    /\ code_content'[1] # ""
    /\ ~SyntaxOk(code_content'[1])

\* C31: when the content of every one of the N + 1 attempts for a .py file
\* fails the syntax check, the executor returns without an exception, the
\* file (when the write itself succeeds) holds the content of the last
\* attempt, and the record appended for the task reports the failure.
C31_ExhaustedSyntaxWrittenAndLogged ==
    [][LastAttemptFailsSyntax =>
            /\ pc' = "task_returned"
            /\ exception' = exception
            /\ exec_effects'.wrote =>
                   /\ files'[CurrentTask.file_path] = code_content'[1]
                   /\ Len(execution_logs') = Len(execution_logs) + 1
                   /\ execution_logs'[Len(execution_logs')].step_id
                          = CurrentTask.step_id
                   /\ ~execution_logs'[Len(execution_logs')].success]_vars

(***************************************************************************)
(* C32                                                                     *)
(***************************************************************************)
\* a fix was applied in the first iteration: fix_execution_logs, empty when
\* the loop is entered, holds a success record
FixAppliedInFirstIteration ==
    \E i \in DOMAIN fix_execution_logs : fix_execution_logs[i].success

\* C32: when the fix stage of the first iteration has returned, the loop
\* starts a new review pass iff an iteration of the budget remains and a
\* fix was applied in the iteration; a loop that does not go on to the fix
\* stage after a review stops.
C32_LoopsBackIffBudgetAndFixApplied ==
    /\ [][(pc = "loop_head" /\ fix_iteration = 1) =>
            (pc' = "review" <=>
                /\ fix_iteration < max_fix_iterations
                /\ FixAppliedInFirstIteration)]_vars
    /\ [][(pc = "reviewed" /\ pc' # "fix_attempt") =>
            (pc' = "done" \/ pc' = "aborted")]_vars

(***************************************************************************)
(* C33                                                                     *)
(***************************************************************************)
\* the review pass just made produced a result that needs no fix: it says
\* requires_fixes = false or it has no items
PassYieldsNoFixes ==
    /\ pc = "reviewed"
    /\ code_review_result # None
    /\ code_review_result[1].produced_by = review_calls
    /\ \/ ~code_review_result[1].requires_fixes
       \/ code_review_result[1].items = <<>>

\* C33: after a review pass whose result has requires_fixes = false or no
\* items the loop ends at once: no finding is dispatched to the fixer, the
\* user is not asked for a selection, and no review pass follows.
C33_NoFixesRequiredEndsLoop ==
    /\ [][PassYieldsNoFixes =>
            /\ pc' = "done"
            /\ dispatched' = dispatched
            /\ choice' = choice
            /\ items_to_fix' = items_to_fix
            /\ agent_calls' = agent_calls
            /\ review_calls' = review_calls]_vars
    /\ [][pc = "done" =>
            /\ pc' = "done"
            /\ review_calls' = review_calls
            /\ dispatched' = dispatched
            /\ choice' = choice]_vars

\* the first pass of a run with budget left reports findings but
\* requires_fixes = false, and the loop is over with nothing dispatched
C33_Witness ==
    /\ pc = "done"
    /\ fix_iteration = 1
    /\ fix_iteration < max_fix_iterations
    /\ review_calls = 1
    /\ code_review_result # None
    /\ code_review_result[1].produced_by = 1
    /\ code_review_result[1].items # <<>>
    /\ ~code_review_result[1].requires_fixes
    /\ dispatched = <<>>

(***************************************************************************)
(* C34                                                                     *)
(***************************************************************************)
\* the positions of the elements of a list that validate
ValidPositions(items) == {k \in DOMAIN items : items[k].valid}

\* out holds one entry for each valid element of items and no other, in the
\* order of the list: entry i is built from the i-th valid element
KeepsExactlyValid(items, out, id_field) ==
    /\ Len(out) = Cardinality(ValidPositions(items))
    /\ \A i \in DOMAIN out :
           /\ out[i][id_field] \in ValidPositions(items)
           /\ Cardinality({k \in ValidPositions(items) :
                               k <= out[i][id_field]}) = i
           /\ out[i].file_path = items[out[i][id_field]].file_path

\* C34: from a list with elements that fail validation the planning stage
\* builds the plan of all the valid elements in their order, and the review
\* stage the findings of all the valid elements in their order; the loop
\* returns for every list.
C34_OffendingItemsDropped ==
    pc = "returned" =>
        /\ output # None
        /\ exception = "none"
        /\ KeepsExactlyValid(input, output[1],
                             IF input \in ListsOf(RawPlanItems)
                             THEN "step_id" ELSE "item_id")
        /\ \A i \in DOMAIN output[1] :
               IF input \in ListsOf(RawPlanItems)
               THEN output[1][i].action_type
                        = input[output[1][i].step_id].action_type
               ELSE output[1][i].severity
                        = input[output[1][i].item_id].severity

\* a planner list with a bad element between two valid ones: both valid
\* elements are in the plan
C34_Witness ==
    /\ pc = "returned"
    /\ input \in ListsOf(RawPlanItems)
    /\ Len(input) = 3
    /\ input[1].valid /\ ~input[2].valid /\ input[3].valid
    /\ Len(output[1]) = 2
    /\ output[1][2].step_id = 3

(***************************************************************************)
(* C35                                                                     *)
(***************************************************************************)
\* C35: each attempt of CommandExecutor.run, one that ends in an exception
\* included, appends exactly one entry to the attempt log; the entry has
\* exit code -1 iff the attempt ended in an exception; and an attempt that
\* raised uses up one attempt of the budget like a nonzero exit does.
C35_OneEntryPerAttemptMinusOneIffException ==
    /\ [][pc = "cmd_attempt" =>
            /\ Len(logs') = Len(logs) + 1
            /\ SubSeq(logs', 1, Len(logs)) = logs
            /\ logs'[Len(logs')].attempt = Len(logs')
            /\ logs'[Len(logs')].exit_code = -1 <=> logs'[Len(logs')].raised
            /\ logs'[Len(logs')].exit_code # 0 =>
                   IF Len(logs') < max_attempts_of(retries)
                   THEN pc' = "cmd_attempt"
                   ELSE pc' = "cmd_finish"]_vars
    /\ [](Len(logs) <= max_attempts_of(retries))

(***************************************************************************)
(* C36                                                                     *)
(***************************************************************************)
\* something of the stderr text, white space at its ends apart, is missing
\* from the excerpt: a line or a character
SomethingCut(stderr, excerpt) ==
    \/ Len(strip_lines(stderr)) > excerpt.lines
    \/ joined_length(strip_lines(stderr)) > excerpt.chars

\* C36: the excerpt of a stderr text has at most 5 lines and at most 200
\* characters of the text, and it ends with the ellipsis marker whenever a
\* line or a character of the text was cut, and only then.
C36_ExcerptBoundedAndMarked ==
    (pc = "returned" /\ ~output[1].placeholder) =>
        /\ output[1].lines <= max_lines
        /\ output[1].chars <= max_chars
        /\ output[1].marker <=> SomethingCut(input, output[1])

(***************************************************************************)
(* C37                                                                     *)
(***************************************************************************)
\* C37: from review_attempt = 1, under any sequence of the operations of the
\* context, review_attempt never decreases and never passes max_attempts,
\* and every call of prepare_ralph_wiggum_retry that succeeds adds one to
\* it: at most max_attempts - 1 calls succeed.  Every feedback is submitted
\* at an attempt of 1..max_attempts, and at attempt max_attempts the call
\* fails, so a controller that submits once per attempt has made at most
\* max_attempts submissions when it is accepted or out of attempts.
C37_AtMostMaxAttemptsMinusOneRetries ==
    /\ [](review_attempt \in 1..max_attempts)
    /\ [][/\ review_attempt' >= review_attempt
          /\ max_attempts' = max_attempts
          /\ (lastop' = "prepare_ralph_wiggum_retry" /\ ret' = "True") =>
                 /\ review_attempt' = review_attempt + 1
                 /\ ralph_wiggum_feedback' = None
          /\ (lastop' = "prepare_ralph_wiggum_retry"
                 /\ review_attempt = max_attempts) => ret' = "False"]_vars
    /\ [](\A i \in DOMAIN iteration_history :
              iteration_history[i].action = "feedback_submitted" =>
                  iteration_history[i].attempt \in 1..max_attempts)

\* a run of the controller that is out of attempts after max_attempts = 2
\* submissions: feedback at attempt 1, a retry, feedback at attempt 2, and
\* the retry refused
C37_Witness ==
    /\ max_attempts = 2
    /\ review_attempt = max_attempts
    /\ lastop = "prepare_ralph_wiggum_retry"
    /\ ret = "False"
    /\ Len(iteration_history) = max_attempts
    /\ \A i \in 1..max_attempts :
           /\ iteration_history[i].action = "feedback_submitted"
           /\ iteration_history[i].attempt = i
    /\ ralph_wiggum_feedback # None
    /\ ~is_ralph_wiggum_accepted(ralph_wiggum_feedback, ralph_wiggum_threshold)

(***************************************************************************)
(* C38                                                                     *)
(***************************************************************************)
\* C38: in the summary a call of run has written, total_attempts is the
\* number of attempt entries, the entries are numbered 1, 2, ... in order,
\* final_exit_code is the exit code of the last entry and None iff there is
\* no entry, and final_status is success iff the last entry has exit code
\* 0; the success flag returned says final_status = success and the list
\* returned has one entry for each attempt.
C38_SummaryConsistent ==
    pc = "cmd_returned" =>
        LET s == log_directory[execution_counter]
            n == Len(s.attempts)
            r == run_ret[1]
        IN  /\ s.total_attempts = n
            /\ \A k \in 1..n : s.attempts[k].attempt = k
            /\ s.final_exit_code = None <=> n = 0
            /\ n > 0 => s.final_exit_code = Some(s.attempts[n].exit_code)
            /\ s.final_status = "success" <=>
                   (n > 0 /\ s.attempts[n].exit_code = 0)
            /\ r.success <=> s.final_status = "success"
            /\ Len(r.logs) = n
            /\ \A k \in 1..n : r.logs[k].exit_code = s.attempts[k].exit_code

\* a failed run of two attempts: the first ended in an exception, the second
\* exited 1
C38_Witness ==
    /\ pc = "cmd_returned"
    /\ retries = 1
    /\ log_directory[execution_counter].total_attempts = 2
    /\ log_directory[execution_counter].attempts[1].raised
    /\ log_directory[execution_counter].attempts[2].exit_code = 1
    /\ log_directory[execution_counter].final_status = "failed"
    /\ log_directory[execution_counter].final_exit_code = Some(1)
    /\ ~run_ret[1].success

(***************************************************************************)
(* C39                                                                     *)
(***************************************************************************)
\* the review passes started so far: the calls of run_codex_code_review
\* made, and the one the iteration in progress is about to make
PassesStarted == review_calls + (IF pc = "review" THEN 1 ELSE 0)

RunEnded == pc = "done" \/ pc = "aborted"

\* C39 as stated: fix_iteration_count is the number of review passes started
\* so far, it never decreases, and when the run has ended it is at most
\* max_fix_iterations, and 0 when the review is skipped.
C39_CountIsPassesAtMostMax ==
    /\ [](fix_iteration_count = PassesStarted)
    /\ [][fix_iteration_count' >= fix_iteration_count]_vars
    /\ [](RunEnded =>
              IF skip_review THEN fix_iteration_count = 0
              ELSE fix_iteration_count <= max_fix_iterations)

\* C39, amended: fix_iteration_count is the number of review passes started
\* so far, it never decreases, and when the run has ended it is at most
\* max_fix_iterations, or 0 when max_fix_iterations is negative or the
\* review is skipped.
C39_CountIsPassesAtMostMax0 ==
    /\ [](fix_iteration_count = PassesStarted)
    /\ [][fix_iteration_count' >= fix_iteration_count]_vars
    /\ [](RunEnded =>
              IF skip_review \/ max_fix_iterations < 0
              THEN fix_iteration_count = 0
              ELSE fix_iteration_count <= max_fix_iterations)

\* a run that used its budget of two passes
C39_Witness ==
    /\ pc = "done"
    /\ ~skip_review
    /\ max_fix_iterations = 2
    /\ fix_iteration_count = 2
    /\ review_calls = 2

(***************************************************************************)
(* C40                                                                     *)
(***************************************************************************)
\* C40: with auto_select set the approach is selected without a prompt,
\* whatever the brainstorm review returned, a text without a detected option
\* included, and planning starts with selected_approach set.
C40_AutoSelectNeverPrompts ==
    [][(pc = "select_approach" /\ auto_select) =>
            /\ approach_prompts' = <<>>
            /\ selected_approach' # None
            /\ pc' = "stage3"]_vars

====
